---------------------------- MODULE Spec2Model ----------------------------
(***************************************************************************)
(* A model of the navigation-and-extraction layer of the registry scraper  *)
(* (src/wa_scraper3/wa_search_sb_local_pdf_proxy4_v2.py).                   *)
(*                                                                         *)
(* The module holds one state machine per routine of the scraper; every    *)
(* machine has its own specification over the shared variable tuple, the   *)
(* variables of the other machines staying at their idle values:           *)
(*   SpecPager     parse_pager on rendered pager texts                     *)
(*   SpecCf        the two challenge handlers                              *)
(*   SpecBack      click_back_with_cf against an arbitrary site            *)
(*   SpecPdf       scrape_filing_history_and_pdfs, the download loop       *)
(*   SpecKeyword   scrape_keyword: form submission, pagination, two passes *)
(*   SpecAssign    assign_proxies_for_batch, called again and again        *)
(*   SpecRun       run_letter: resume, the worker pool, the sequential loop *)
(*   SpecDetail    the exit paths of the two detail captures of a page     *)
(***************************************************************************)
EXTENDS Integers, Sequences, FiniteSets, TLC

VARIABLES
    \* ---- parse_pager harness
    pgIn,        \* the pager text handed to parse_pager: its numbers and its shape
    pgOut,       \* what parse_pager returned
    pgPc,        \* "call" | "done"
    \* ---- the challenge handlers
    cfFn,        \* which handler runs: "nested" (click_back_with_cf.handle_cloudflare)
                 \* or "if_present" (handle_cloudflare_if_present)
    cfPc,        \* "start" | "poll" | "done"
    cfPage,      \* the challenge markers the page shows
    cfPolls,     \* polls of the wait loop that found the marker
    cfClock,     \* seconds slept by the handler
    cfRet,       \* the value returned: "None" | "True" | "False"; "-" before the return
    cfRaised,    \* a driver call of the handler raised and the handler swallowed it
    \* ---- click_back_with_cf
    bkPc,        \* position in click_back_with_cf
    bkPage,      \* the page the browser shows: [url, html]
    bkPending,   \* a navigation is in flight: the page may still change
    bkModal,     \* a .modal-dialog is present
    bkChallenge, \* a Cloudflare widget (#cf-chl-widget, .cf-turnstile) is present
    bkStep,      \* step of the history.back loop (0-based)
    bkPolls,     \* turns taken of the current wait loop
    bkRet,       \* "True" | "False" | "raised"; "-" before the return
    bkClicks,    \* clicks on button.btn-back
    bkHistBacks, \* window.history.back() calls
    bkCfChecks,  \* calls of handle_cloudflare
    bkCfDue,     \* a navigation was made and handle_cloudflare has not run since
    bkBlind,     \* the page was classified while bkCfDue
    bkAdvSeen,   \* reached_advanced_search() has returned True
    bkNavAfterAdv, \* a backward navigation was made after bkAdvSeen
    bkRaised1,   \* a driver call of the Step 1 probe raised
    \* ---- scrape_filing_history_and_pdfs
    pfPc,        \* position in scrape_filing_history_and_pdfs
    pfFilings,   \* the parsed filing table: per row, whether it has a filing number
    pfIdx,       \* the row of the download loop (1-based)
    pfDir,       \* the *.pdf files of download_dir, oldest first, each named by the
                 \* row whose click started its download
    pfInFlight,  \* rows whose download was started and has not landed
    pfBefore,    \* before_files: the snapshot taken before the click
    pfNew,       \* new_pdf_path: the file wait_for_new_pdf returned (0: none)
    pfModal,     \* the View Documents .modal-dialog is shown
    pfBackdrop,  \* a .modal-backdrop is in the page
    pfOutcome,   \* per row, how its turn of the loop ended
    pdf_summaries, \* the summaries appended so far
    pfRet,       \* "-" | "returned" | "raised"
    pfShown,     \* rows whose View Documents modal was found displayed
    pfClosed,    \* rows for which close_view_documents_modal was called
    \* ---- scrape_keyword
    kwPc,        \* position in scrape_keyword
    attempt,     \* the form-submission attempt (1-based)
    page_index,
    pages_info,  \* the page_index recorded for each page read (first MaxLog entries)
    business_list, \* the BusinessIDs of the model channel's list (0: no BusinessID)
    local_idx,   \* position in business_list of the running pass (1-based)
    pdf_data_by_id, \* per BusinessID the number of PDF summaries; -1: no entry
    visited_detail_ids,
    html_details_records,
    details_failed,
    details_success,
    pdf_success, \* the summary's pdf_success, once it is built
    pdf_fail,    \* the summary's pdf_fail, once it is built
    pager,       \* the last result of parse_pager
    retry_count,
    moved,       \* whether an advance control could be invoked
    kwRet,       \* "-" | "failure" | "summary"
    sitePage,    \* the results page the site shows
    siteTotal,   \* the number of result pages of the keyword
    kwFormRaises, \* form-submission attempts that raised
    kwOpens,     \* per BusinessID, calls of open_business_info_for_row on this page
    kwFirstSeen, \* per BusinessID, the site page on which it was first listed
    kwLateOpen,  \* BusinessIDs opened on another site page than their first
    kwReopened,  \* BusinessIDs opened again after their record or their PDF pass
    kwFailedIds, \* BusinessIDs with a failed Business Information capture
    kwNextCalled, \* click_next_js was called
    kwPageNoCalled, \* click_page_number_js was called
    kwControls,  \* the advance controls the last advance called, in order
    \* ---- assign_proxies_for_batch
    apPc,        \* position in assign_proxies_for_batch
    apKeywords,  \* the keywords argument
    batch_size,
    excluded,    \* the excluded set, shared by every call of one run
    exc_file,    \* the lines appended to the deny-list file during the run
    candidate_proxies,
    used_in_batch,
    assignments, \* per keyword the proxy assigned; 0: no entry
    apIdx,       \* position in batch_keywords (1-based)
    apRet,       \* "-" | "returned" | "RuntimeError"
    apFailed,    \* proxies that failed a liveness probe during the run
    apPassed,    \* proxies that passed the probe during this call
    apProbedAgain, \* a proxy was probed after it had failed a probe
    \* ---- run_letter
    rlPc,        \* position in run_letter
    rlMode,      \* "proxy_list" | "proxy" | "direct"
    max_workers, \* run_letter's batch_size, the size of the worker pool
    rlKeywordFile, \* the keywords of the letter's keyword file
    rlPriorFile, \* the tracking file as the run found it
    tracking_file, \* the tracking file on disk
    pending_keywords, \* keywords, once the done ones are filtered out
    tracking_combined,
    result_map,  \* per keyword <<>> or <<result>>
    results_file, \* wa_results_<letter>.json on disk
    results_tracking_file, \* wa_results_tracking_<letter>.json on disk
    kw_iter,     \* position of the next keyword kw_iter yields
    future_to_kw, \* the workers in flight: position, keyword, proxy
    rlDone,      \* the finished workers wait() returned, not yet handled
    rlCaller,    \* who called get_next_assignment: "prime" | "refill"
    rlPrimed,    \* turns of the priming loop taken
    rlNext,      \* position of the keyword get_next_assignment pulled
    rlScrapes,   \* per position, how often its keyword was handed to a scrape
    rlFormFailed, \* positions whose scrape gave up on the search form
    rlRaised,    \* positions whose scrape raised
    rlDropped, \* positions pulled from kw_iter and never handed to a worker
    \* ---- the two detail captures of one grid page
    dtPc,        \* position in the capture under way
    dtPass,      \* "pdf" (scrape_pdfs_for_business) | "bi" (the BI capture)
    dtN,         \* length of business_list
    dtIdx,       \* position in business_list (1-based)
    dtView,      \* the view the session shows
    dtBack,      \* click_back_with_cf was invoked by the capture under way
    dtLog,       \* per finished capture: pass, exit path, click_back_with_cf invoked,
                 \* name read, value click_back_with_cf gave, record returned
    dtName,      \* actual_name of the capture under way: "empty" | "shown"
    dtPolls,     \* turns of the name polling taken
    dtSuccess,   \* details_success
    dtFailed, \* details_failed
    \* ---- open_business_info_for_row
    opPc,        \* position in open_business_info_for_row
    opPath,      \* "primary" (showBusineInfo) | "row" (the row click)
    first_detail_for_keyword,
    row_index,   \* 0-based
    opRows,      \* the rows of table.table-striped
    opRet,       \* "-" | "True" | "False"
    opLog        \* the calls made so far, in order, each with its answer

pagerVars == <<pgIn, pgOut, pgPc>>

cfVars == <<cfFn, cfPc, cfPage, cfPolls, cfClock, cfRet, cfRaised>>

bkCtl == <<bkPc, bkStep, bkPolls, bkRet>>

bkSite == <<bkPage, bkPending, bkModal, bkChallenge>>

bkHist ==
    <<bkClicks, bkHistBacks, bkCfChecks, bkCfDue, bkBlind, bkAdvSeen, bkNavAfterAdv,
      bkRaised1>>

backVars == <<bkCtl, bkSite, bkHist>>

pdfVars ==
    <<pfPc, pfFilings, pfIdx, pfDir, pfInFlight, pfBefore, pfNew, pfModal, pfBackdrop,
      pfOutcome, pdf_summaries, pfRet, pfShown, pfClosed>>

kwCtl == <<kwPc, attempt, page_index, local_idx, retry_count, moved, kwRet>>

kwData ==
    <<pages_info, business_list, pdf_data_by_id, visited_detail_ids,
      html_details_records, details_failed, details_success, pager>>

kwSite == <<sitePage, siteTotal>>

kwGhost ==
    <<kwFormRaises, kwOpens, kwFirstSeen, kwLateOpen, kwReopened, kwFailedIds,
      kwNextCalled, kwPageNoCalled, kwControls>>

kwSummary == <<pdf_success, pdf_fail>>

keywordVars == <<kwCtl, kwData, kwSite, kwGhost, kwSummary>>

assignVars ==
    <<apPc, apKeywords, batch_size, excluded, exc_file, candidate_proxies,
      used_in_batch, assignments, apIdx, apRet, apFailed, apPassed, apProbedAgain>>

runVars ==
    <<rlPc, rlMode, max_workers, rlKeywordFile, rlPriorFile, tracking_file,
      pending_keywords, tracking_combined, result_map, results_file,
      results_tracking_file, kw_iter, future_to_kw,
      rlDone, rlCaller, rlPrimed, rlNext, rlScrapes, rlFormFailed, rlRaised,
      rlDropped>>

detailVars ==
    <<dtPc, dtPass, dtN, dtIdx, dtView, dtBack, dtLog, dtName, dtPolls, dtSuccess,
      dtFailed>>

openVars ==
    <<opPc, opPath, first_detail_for_keyword, row_index, opRows, opRet, opLog>>

vars ==
    <<pagerVars, cfVars, backVars, pdfVars, keywordVars, assignVars,
      runVars, detailVars, openVars>>

\* what the steps of one machine leave alone
PagerFrame ==
    UNCHANGED <<cfVars, backVars, pdfVars, keywordVars,
      assignVars, runVars, detailVars, openVars>>

CfFrame ==
    UNCHANGED <<pagerVars, backVars, pdfVars, keywordVars,
      assignVars, runVars, detailVars, openVars>>

BackFrame ==
    UNCHANGED <<pagerVars, cfVars, pdfVars, keywordVars,
      assignVars, runVars, detailVars, openVars>>

PdfFrame ==
    UNCHANGED <<pagerVars, cfVars, backVars, keywordVars,
      assignVars, runVars, detailVars, openVars>>

KeywordFrame ==
    UNCHANGED <<pagerVars, cfVars, backVars, pdfVars,
      assignVars, runVars, detailVars, openVars>>

AssignFrame ==
    UNCHANGED <<pagerVars, cfVars, backVars, pdfVars,
      keywordVars, runVars, detailVars, openVars>>

\* run_letter calls assign_proxies_for_batch: its steps say themselves what
\* they leave alone of assignVars
RunFrame ==
    UNCHANGED <<pagerVars, cfVars, backVars, pdfVars,
      keywordVars, detailVars, openVars>>

DetailFrame ==
    UNCHANGED <<pagerVars, cfVars, backVars, pdfVars,
      keywordVars, assignVars, runVars, openVars>>

OpenFrame ==
    UNCHANGED <<pagerVars, cfVars, backVars, pdfVars,
      keywordVars, assignVars, runVars, detailVars>>

-----------------------------------------------------------------------------
(* Small helpers *)

Min(S) == CHOOSE x \in S : \A y \in S : x <= y

Max(S) == CHOOSE x \in S : \A y \in S : x >= y

\* Python's None
None == [tag |-> "None"]

-----------------------------------------------------------------------------
(***************************************************************************)
(* parse_pager.  The page source is a sequence of tokens: words, single    *)
(* decimal digits, white space and punctuation.  The regular expression    *)
(*   Page\s+(\d+)\s+of\s+(\d+),\s*records\s+(\d+)\s+to\s+(\d+)\s+of\s+(\d+) *)
(* is matched with re.IGNORECASE by re.search (leftmost match).            *)
(***************************************************************************)

Digits == {"0", "1", "2", "3", "4", "5", "6", "7", "8", "9"}

WS == {" ", "\n"}

DigitVal(d) ==
    CASE d = "0" -> 0 [] d = "1" -> 1 [] d = "2" -> 2 [] d = "3" -> 3
      [] d = "4" -> 4 [] d = "5" -> 5 [] d = "6" -> 6 [] d = "7" -> 7
      [] d = "8" -> 8 [] d = "9" -> 9

DigitChar(n) ==
    CASE n = 0 -> "0" [] n = 1 -> "1" [] n = 2 -> "2" [] n = 3 -> "3"
      [] n = 4 -> "4" [] n = 5 -> "5" [] n = 6 -> "6" [] n = 7 -> "7"
      [] n = 8 -> "8" [] n = 9 -> "9"

\* re.IGNORECASE on the words of the pattern
Lower(t) ==
    CASE t \in {"Page", "PAGE"} -> "page"
      [] t \in {"Of", "OF"} -> "of"
      [] t \in {"Records", "RECORDS"} -> "records"
      [] t \in {"To", "TO"} -> "to"
      [] OTHER -> t

\* int(): the value of a string of decimal digits (leading zeros allowed)
RECURSIVE IntOf(_, _)
IntOf(ds, acc) ==
    IF ds = <<>> THEN acc ELSE IntOf(Tail(ds), 10 * acc + DigitVal(Head(ds)))

int(ds) == IntOf(ds, 0)

\* str() of a natural number, as the site renders it
RECURSIVE Dec(_)
Dec(n) == IF n < 10 THEN <<DigitChar(n)>> ELSE Dec(n \div 10) \o <<DigitChar(n % 10)>>

\* the first index at or after i whose token is not in S
RECURSIVE RunEnd(_, _, _)
RunEnd(h, i, S) == IF i <= Len(h) /\ h[i] \in S THEN RunEnd(h, i + 1, S) ELSE i

PagerPattern ==
    <<"page", "WS+", "NUM", "WS+", "of", "WS+", "NUM", ",", "WS*", "records",
      "WS+", "NUM", "WS+", "to", "WS+", "NUM", "WS+", "of", "WS+", "NUM">>

\* the groups of a match of pat that starts at token i, wrapped in a
\* one-element sequence; <<>> when pat does not match there
RECURSIVE MatchFrom(_, _, _, _)
MatchFrom(h, i, pat, groups) ==
    IF pat = <<>> THEN <<groups>>
    ELSE LET e == Head(pat) IN
      CASE e = "WS+" ->
             LET j == RunEnd(h, i, WS) IN
             IF j > i THEN MatchFrom(h, j, Tail(pat), groups) ELSE <<>>
        [] e = "WS*" -> MatchFrom(h, RunEnd(h, i, WS), Tail(pat), groups)
        [] e = "NUM" ->
             LET j == RunEnd(h, i, Digits) IN
             IF j > i
             THEN MatchFrom(h, j, Tail(pat), Append(groups, SubSeq(h, i, j - 1)))
             ELSE <<>>
        [] OTHER ->
             IF i <= Len(h) /\ Lower(h[i]) = e
             THEN MatchFrom(h, i + 1, Tail(pat), groups)
             ELSE <<>>

\* re.search: the leftmost match, <<>> when there is none
re_search(pat, h) ==
    LET hits == {i \in 1..Len(h) : MatchFrom(h, i, pat, <<>>) # <<>>}
    IN IF hits = {} THEN <<>> ELSE MatchFrom(h, Min(hits), pat, <<>>)

\* parse_pager without its placeholder test, for comparison
parse_pager_nocheck(html) ==
    LET m == re_search(PagerPattern, html) IN
    IF m = <<>> THEN None
    ELSE LET g == m[1] IN
         [tag |-> "pager", page |-> int(g[1]), total_pages |-> int(g[2]),
          start |-> int(g[3]), end |-> int(g[4]), total |-> int(g[5])]

parse_pager(html) ==
    LET m == re_search(PagerPattern, html) IN
    IF m = <<>> THEN None
    ELSE LET g == m[1]
             a == int(g[1])
             b == int(g[2])
             c == int(g[3])
             d == int(g[4])
             e == int(g[5])
         IN IF b = 0 \/ e = 0 THEN None
            ELSE [tag |-> "pager", page |-> a, total_pages |-> b,
                  start |-> c, end |-> d, total |-> e]

\* 'Page X of Y, records A to B of C' as the results page shows it
PagerText(x, y, a, b, c) ==
    <<"Page", " ">> \o Dec(x) \o <<" ", "of", " ">> \o Dec(y)
      \o <<",", " ", "records", " ">> \o Dec(a) \o <<" ", "to", " ">> \o Dec(b)
      \o <<" ", "of", " ">> \o Dec(c)


-----------------------------------------------------------------------------
(***************************************************************************)
(* The challenge handlers.  The page shows a set of challenge markers: the *)
(* words the page source contains and the widget elements present.  The    *)
(* site may clear the challenge at any moment.                             *)
(***************************************************************************)

ChallengeMarkers == {"turnstile", "cloudflare", "#cf-chl-widget", ".cf-turnstile"}

\* for _ in range(300)
CfMaxPolls == 300

\* sb.sleep(8) and sb.sleep(1) of handle_cloudflare_if_present
CfSolveSleep == 8

CfSettleSleep == 1

\* sb.is_element_present("css=#cf-chl-widget") or ...(".cf-turnstile")
WidgetPresent(page) == "#cf-chl-widget" \in page \/ ".cf-turnstile" \in page

\* the text test with one of its two words, for comparison
TextDetectedOneWord(page) == "cloudflare" \in page

\* "turnstile" in lower or "cloudflare" in lower
TextDetected(page) == "turnstile" \in page \/ "cloudflare" \in page

CfIdle ==
    /\ cfFn = "none" /\ cfPc = "idle" /\ cfPage = {} /\ cfPolls = 0 /\ cfClock = 0
    /\ cfRet = "-" /\ cfRaised = FALSE

InitCf ==
    /\ cfFn \in {"nested", "if_present"}
    /\ cfPc = "start"
    /\ cfPage \in SUBSET ChallengeMarkers
    /\ cfPolls = 0 /\ cfClock = 0 /\ cfRet = "-" /\ cfRaised = FALSE

\* the site removes the challenge
CfSiteClears ==
    /\ cfPc # "done" /\ cfPage # {}
    /\ cfPage' = {}
    /\ UNCHANGED <<cfFn, cfPc, cfPolls, cfClock, cfRet, cfRaised>>
    /\ CfFrame

\* handle_cloudflare: the first presence test
CfNestedStart ==
    /\ cfFn = "nested" /\ cfPc = "start"
    /\ IF WidgetPresent(cfPage)
       THEN cfPc' = "poll" /\ cfRet' = cfRet
       ELSE cfPc' = "done" /\ cfRet' = "None"
    /\ UNCHANGED <<cfFn, cfPage, cfPolls, cfClock, cfRaised>>
    /\ CfFrame

\* handle_cloudflare: one turn of the wait loop
CfNestedPoll ==
    /\ cfFn = "nested" /\ cfPc = "poll"
    /\ IF cfPolls < CfMaxPolls /\ WidgetPresent(cfPage)
       THEN /\ cfPolls' = cfPolls + 1
            /\ cfClock' = cfClock + 1
            /\ UNCHANGED <<cfPc, cfRet>>
       ELSE /\ cfPc' = "done" /\ cfRet' = "None"
            /\ UNCHANGED <<cfPolls, cfClock>>
    /\ UNCHANGED <<cfFn, cfPage, cfRaised>>
    /\ CfFrame

\* handle_cloudflare: a presence test raises; the handler swallows it
CfNestedProbeRaises ==
    /\ cfFn = "nested" /\ cfPc \in {"start", "poll"}
    /\ cfPc' = "done" /\ cfRet' = "None" /\ cfRaised' = TRUE
    /\ UNCHANGED <<cfFn, cfPage, cfPolls, cfClock>>
    /\ CfFrame

\* handle_cloudflare_if_present, the whole call
CfIfPresent ==
    /\ cfFn = "if_present" /\ cfPc = "start"
    /\ \E readOk \in BOOLEAN :
         LET html == IF readOk THEN cfPage ELSE {} IN
         /\ cfRaised' = ~readOk
         /\ IF TextDetected(html)
            THEN /\ cfClock' = cfClock + CfSolveSleep + CfSettleSleep
                 /\ cfRet' = "True"
            ELSE /\ cfClock' = cfClock
                 /\ cfRet' = "False"
    /\ cfPc' = "done"
    /\ UNCHANGED <<cfFn, cfPage, cfPolls>>
    /\ CfFrame

\* the handler is called again on a fresh page
CfAgain ==
    /\ cfPc = "done"
    /\ cfFn' \in {"nested", "if_present"}
    /\ cfPage' \in SUBSET ChallengeMarkers
    /\ cfPc' = "start" /\ cfPolls' = 0 /\ cfClock' = 0 /\ cfRet' = "-"
    /\ cfRaised' = FALSE
    /\ CfFrame

NextCf ==
    \/ CfSiteClears
    \/ CfNestedStart
    \/ CfNestedPoll
    \/ CfNestedProbeRaises
    \/ CfIfPresent
    \/ CfAgain


-----------------------------------------------------------------------------
(***************************************************************************)
(* click_back_with_cf.  A page is the set of route names its URL contains  *)
(* and the set of marker texts its source contains.  The site answers a    *)
(* navigation with any page, at once or while the caller is polling.       *)
(***************************************************************************)

Urls ==
    {{}, {"AdvancedSearch"}, {"BusinessSearch"}, {"BusinessInformation"},
     {"BusinessSearch", "BusinessInformation"}}

\* "results": one of the three results markers; "biHeader": 'Business Information</h2>'
HtmlMarkers == {"results", "biHeader"}

Pages == [url : Urls, html : SUBSET HtmlMarkers]

\* for _ in range(10)
PollsPerWait == 10

\* for step in range(3)
HistorySteps == 3

\* a results probe that looks at the URL only, for comparison
is_on_search_results_by_url(page, ok) == ok /\ "BusinessSearch" \in page.url

\* ok: the driver calls of the probe did not raise
is_on_search_results(page, ok) ==
    ok /\ "BusinessSearch" \in page.url /\ "results" \in page.html

is_on_business_info(page, ok) ==
    ok /\ ("BusinessInformation" \in page.url \/ "biHeader" \in page.html)

reached_advanced_search(page, ok) == ok /\ "AdvancedSearch" \in page.url

\* a navigator that does not stop at the search form, for comparison
StopNever(adv) == FALSE

\* if reached_advanced_search(): return False
StopOnAdvancedSearch(adv) == adv

\* a loop of one more history step, for comparison
HistoryLoopLonger(step) == step = HistorySteps + 1

\* for step in range(3): the loop has run out
HistoryLoopEnds(step) == step = HistorySteps

BackIdle ==
    /\ bkPc = "idle" /\ bkStep = 0 /\ bkPolls = 0 /\ bkRet = "-"
    /\ bkPage = [url |-> {}, html |-> {}] /\ bkPending = FALSE /\ bkModal = FALSE
    /\ bkChallenge = FALSE
    /\ bkClicks = 0 /\ bkHistBacks = 0 /\ bkCfChecks = 0 /\ bkCfDue = FALSE
    /\ bkBlind = FALSE /\ bkAdvSeen = FALSE /\ bkNavAfterAdv = FALSE
    /\ bkRaised1 = FALSE

InitBack ==
    /\ bkPc = "modal" /\ bkStep = 0 /\ bkPolls = 0 /\ bkRet = "-"
    /\ bkPage \in Pages /\ bkPending \in BOOLEAN /\ bkModal \in BOOLEAN
    /\ bkChallenge \in BOOLEAN
    /\ bkClicks = 0 /\ bkHistBacks = 0 /\ bkCfChecks = 0 /\ bkCfDue = FALSE
    /\ bkBlind = FALSE /\ bkAdvSeen = FALSE /\ bkNavAfterAdv = FALSE
    /\ bkRaised1 = FALSE

\* the function returns r
BkReturn(r) == bkPc' = "done" /\ bkRet' = r

\* a page classification is made now
BkClassified == bkBlind' = (bkBlind \/ bkCfDue)

\* a backward navigation is made now
BkNavigated ==
    /\ bkPending' = TRUE
    /\ bkCfDue' = TRUE
    /\ bkNavAfterAdv' = (bkNavAfterAdv \/ bkAdvSeen)
    /\ bkRaised1' = bkRaised1

\* the navigation in flight lands
BkSiteSettles ==
    /\ bkPc # "done" /\ bkPending
    /\ bkPage' \in Pages
    /\ bkChallenge' \in BOOLEAN
    /\ bkPending' = FALSE
    /\ UNCHANGED <<bkCtl, bkModal, bkHist>>
    /\ BackFrame

\* Step 0: close any modal
BkCloseModal ==
    /\ bkPc = "modal"
    /\ IF bkModal THEN bkModal' \in BOOLEAN ELSE bkModal' = bkModal
    /\ bkPc' = "check1"
    /\ UNCHANGED <<bkStep, bkPolls, bkRet, bkPage, bkPending, bkChallenge, bkHist>>
    /\ BackFrame

\* Step 1: already on the results
BkCheck1 ==
    /\ bkPc = "check1"
    /\ \E ok \in BOOLEAN :
         /\ bkRaised1' = ~ok
         /\ IF is_on_search_results(bkPage, ok)
            THEN BkReturn("True")
            ELSE bkPc' = "bi" /\ bkRet' = bkRet
    /\ BkClassified
    /\ UNCHANGED <<bkStep, bkPolls, bkSite, bkClicks, bkHistBacks, bkCfChecks, bkCfDue,
                   bkAdvSeen, bkNavAfterAdv>>
    /\ BackFrame

\* Step 2: on Business Information, click button.btn-back
BkClickBack ==
    /\ bkPc = "bi"
    /\ \E ok \in BOOLEAN, btn \in BOOLEAN, clickOk \in BOOLEAN :
         IF is_on_business_info(bkPage, ok) /\ btn /\ clickOk
         THEN /\ BkNavigated
              /\ bkClicks' = bkClicks + 1
              /\ bkPc' = "biwait_res"
         ELSE /\ bkPc' = "hist_cf"
              /\ UNCHANGED <<bkPending, bkCfDue, bkNavAfterAdv, bkClicks, bkRaised1>>
    /\ BkClassified
    /\ bkPolls' = 0
    /\ UNCHANGED <<bkStep, bkRet, bkPage, bkModal, bkChallenge, bkHistBacks, bkCfChecks,
                   bkAdvSeen>>
    /\ BackFrame

\* the wait after the click: is_on_search_results()
BkBiWaitRes ==
    /\ bkPc = "biwait_res"
    /\ IF bkPolls = PollsPerWait
       THEN bkPc' = "hist_cf" /\ UNCHANGED <<bkRet, bkBlind>>
       ELSE /\ \E ok \in BOOLEAN :
                 IF is_on_search_results(bkPage, ok)
                 THEN BkReturn("True")
                 ELSE bkPc' = "biwait_adv" /\ bkRet' = bkRet
            /\ BkClassified
    /\ UNCHANGED <<bkStep, bkPolls, bkSite, bkClicks, bkHistBacks, bkCfChecks, bkCfDue,
                   bkAdvSeen, bkNavAfterAdv, bkRaised1>>
    /\ BackFrame

\* the wait after the click: reached_advanced_search(), then time.sleep(1)
BkBiWaitAdv ==
    /\ bkPc = "biwait_adv"
    /\ \E ok \in BOOLEAN :
         LET adv == reached_advanced_search(bkPage, ok) IN
         /\ bkAdvSeen' = (bkAdvSeen \/ adv)
         /\ IF StopOnAdvancedSearch(adv)
            THEN BkReturn("False") /\ bkPolls' = bkPolls
            ELSE bkPc' = "biwait_res" /\ bkPolls' = bkPolls + 1 /\ bkRet' = bkRet
    /\ BkClassified
    /\ UNCHANGED <<bkStep, bkSite, bkClicks, bkHistBacks, bkCfChecks, bkCfDue,
                   bkNavAfterAdv, bkRaised1>>
    /\ BackFrame

\* Step 3, top of the loop: handle_cloudflare (a widget that is present is
\* waited for, and has gone or not when the wait ends), or the loop ends
BkHistCf ==
    /\ bkPc = "hist_cf"
    /\ IF HistoryLoopEnds(bkStep)
       THEN bkPc' = "final" /\ UNCHANGED <<bkCfChecks, bkCfDue, bkChallenge>>
       ELSE /\ bkPc' = "hist_res" /\ bkCfChecks' = bkCfChecks + 1 /\ bkCfDue' = FALSE
            /\ bkChallenge' \in IF bkChallenge THEN BOOLEAN ELSE {FALSE}
    /\ UNCHANGED <<bkStep, bkPolls, bkRet, bkPage, bkPending, bkModal, bkClicks,
                   bkHistBacks, bkBlind, bkAdvSeen, bkNavAfterAdv, bkRaised1>>
    /\ BackFrame

\* Step 3: re-check before navigating, is_on_search_results()
BkHistRes ==
    /\ bkPc = "hist_res"
    /\ \E ok \in BOOLEAN :
         IF is_on_search_results(bkPage, ok)
         THEN BkReturn("True")
         ELSE bkPc' = "hist_adv" /\ bkRet' = bkRet
    /\ BkClassified
    /\ UNCHANGED <<bkStep, bkPolls, bkSite, bkClicks, bkHistBacks, bkCfChecks, bkCfDue,
                   bkAdvSeen, bkNavAfterAdv, bkRaised1>>
    /\ BackFrame

\* Step 3: re-check before navigating, reached_advanced_search()
BkHistAdv ==
    /\ bkPc = "hist_adv"
    /\ \E ok \in BOOLEAN :
         LET adv == reached_advanced_search(bkPage, ok) IN
         /\ bkAdvSeen' = (bkAdvSeen \/ adv)
         /\ IF StopOnAdvancedSearch(adv)
            THEN BkReturn("False")
            ELSE bkPc' = "hist_nav" /\ bkRet' = bkRet
    /\ BkClassified
    /\ UNCHANGED <<bkStep, bkPolls, bkSite, bkClicks, bkHistBacks, bkCfChecks, bkCfDue,
                   bkNavAfterAdv, bkRaised1>>
    /\ BackFrame

\* Step 3: window.history.back() and the sleep after it
BkHistoryBack ==
    /\ bkPc = "hist_nav"
    /\ \E raises \in BOOLEAN :
         IF raises
         THEN /\ BkReturn("raised")
              /\ UNCHANGED <<bkPending, bkCfDue, bkNavAfterAdv, bkHistBacks, bkRaised1>>
         ELSE /\ BkNavigated
              /\ bkHistBacks' = bkHistBacks + 1
              /\ bkPc' = "histwait_res" /\ bkRet' = bkRet
    /\ bkPolls' = 0
    /\ UNCHANGED <<bkStep, bkPage, bkModal, bkChallenge, bkClicks, bkCfChecks, bkBlind,
                   bkAdvSeen>>
    /\ BackFrame

\* the wait after history.back: is_on_search_results()
BkHistWaitRes ==
    /\ bkPc = "histwait_res"
    /\ IF bkPolls = PollsPerWait
       THEN bkPc' = "hist_cf" /\ bkStep' = bkStep + 1 /\ UNCHANGED <<bkRet, bkBlind>>
       ELSE /\ \E ok \in BOOLEAN :
                 IF is_on_search_results(bkPage, ok)
                 THEN BkReturn("True")
                 ELSE bkPc' = "histwait_adv" /\ bkRet' = bkRet
            /\ BkClassified
            /\ bkStep' = bkStep
    /\ UNCHANGED <<bkPolls, bkSite, bkClicks, bkHistBacks, bkCfChecks, bkCfDue,
                   bkAdvSeen, bkNavAfterAdv, bkRaised1>>
    /\ BackFrame

\* the wait after history.back: reached_advanced_search(), then time.sleep(1)
BkHistWaitAdv ==
    /\ bkPc = "histwait_adv"
    /\ \E ok \in BOOLEAN :
         LET adv == reached_advanced_search(bkPage, ok) IN
         /\ bkAdvSeen' = (bkAdvSeen \/ adv)
         /\ IF StopOnAdvancedSearch(adv)
            THEN BkReturn("False") /\ bkPolls' = bkPolls
            ELSE bkPc' = "histwait_res" /\ bkPolls' = bkPolls + 1 /\ bkRet' = bkRet
    /\ BkClassified
    /\ UNCHANGED <<bkStep, bkSite, bkClicks, bkHistBacks, bkCfChecks, bkCfDue,
                   bkNavAfterAdv, bkRaised1>>
    /\ BackFrame

\* a final check that reports success whatever the probe says, for comparison
FinalAnswerHopeful(on_results) == "True"

\* if is_on_search_results(): return True; return False
FinalAnswer(on_results) == IF on_results THEN "True" ELSE "False"

\* Final check
BkFinal ==
    /\ bkPc = "final"
    /\ \E ok \in BOOLEAN : BkReturn(FinalAnswer(is_on_search_results(bkPage, ok)))
    /\ BkClassified
    /\ UNCHANGED <<bkStep, bkPolls, bkSite, bkClicks, bkHistBacks, bkCfChecks, bkCfDue,
                   bkAdvSeen, bkNavAfterAdv, bkRaised1>>
    /\ BackFrame

NextBack ==
    \/ BkSiteSettles
    \/ BkCloseModal
    \/ BkCheck1
    \/ BkClickBack
    \/ BkBiWaitRes
    \/ BkBiWaitAdv
    \/ BkHistCf
    \/ BkHistRes
    \/ BkHistAdv
    \/ BkHistoryBack
    \/ BkHistWaitRes
    \/ BkHistWaitAdv
    \/ BkFinal


-----------------------------------------------------------------------------
(***************************************************************************)
(* scrape_filing_history_and_pdfs: the Filing History tab, and for each of *)
(* the first rows of the table the View Documents modal, the download, its *)
(* validation and the summary.                                             *)
(***************************************************************************)

\* the longest filing table the site shows
MaxFilings == 4

\* max_pdfs_per_business
MaxPdfsPerBusiness == 3

\* is_valid_pdf's min_size
MinPdfSize == 2048

PdfMagic == <<"%", "P", "D", "F">>

\* what is on disk under a path: whether it exists, its size, its first 5 bytes
FileStates ==
    {[exists |-> FALSE, size |-> 0, header |-> <<>>],
     [exists |-> TRUE, size |-> 0, header |-> <<>>],
     [exists |-> TRUE, size |-> 2047, header |-> <<"%", "P", "D", "F", "-">>],
     [exists |-> TRUE, size |-> 2048, header |-> <<"%", "P", "D", "F", "-">>],
     [exists |-> TRUE, size |-> 4096, header |-> <<"<", "h", "t", "m", "l">>],
     [exists |-> TRUE, size |-> 4096, header |-> <<"%", "P", "D", "-", "1">>]}

\* bytes.startswith
startswith(bytes, prefix) ==
    Len(bytes) >= Len(prefix) /\ SubSeq(bytes, 1, Len(prefix)) = prefix

\* is_valid_pdf without its size test, for comparison
is_valid_pdf_nosize(f) == f.exists /\ startswith(f.header, PdfMagic)

is_valid_pdf(f) ==
    IF ~f.exists THEN FALSE
    ELSE IF f.size < MinPdfSize THEN FALSE
    ELSE IF ~startswith(f.header, PdfMagic) THEN FALSE
    ELSE TRUE

\* set(download_dir.glob("*.pdf"))
DirFiles(dir) == {dir[k] : k \in 1..Len(dir)}

\* max(new_files, key=mtime): the new file that landed last
Newest(dir, before) ==
    dir[Max({k \in 1..Len(dir) : dir[k] \notin before})]

\* a loop over the whole filing table, for comparison
LastRowAll == Len(pfFilings)

\* filings[:max_pdfs_per_business]
LastRow == IF Len(pfFilings) < MaxPdfsPerBusiness THEN Len(pfFilings) ELSE MaxPdfsPerBusiness

PdfIdle ==
    /\ pfPc = "idle" /\ pfFilings = <<>> /\ pfIdx = 0 /\ pfDir = <<>> /\ pfInFlight = {}
    /\ pfBefore = {} /\ pfNew = 0 /\ pfModal = FALSE /\ pfBackdrop = FALSE
    /\ pfOutcome = <<>> /\ pdf_summaries = <<>> /\ pfRet = "-"
    /\ pfShown = {} /\ pfClosed = {}

InitPdf ==
    /\ pfPc = "open_tab"
    /\ pfFilings \in UNION {[1..n -> BOOLEAN] : n \in 0..MaxFilings}
    /\ pfIdx = 0 /\ pfDir = <<>> /\ pfInFlight = {}
    /\ pfBefore = {} /\ pfNew = 0 /\ pfModal = FALSE /\ pfBackdrop = FALSE
    /\ pfOutcome = [i \in 1..Len(pfFilings) |-> "-"]
    /\ pdf_summaries = <<>> /\ pfRet = "-"
    /\ pfShown = {} /\ pfClosed = {}

\* close_view_documents_modal: the close click may or may not work; the
\* backdrops are removed unless that script raises
PfCloseModal ==
    \E stays \in BOOLEAN, killOk \in BOOLEAN :
      /\ pfModal' = (pfModal /\ stays)
      /\ pfBackdrop' = (pfBackdrop /\ ~killOk)
      /\ pfClosed' = pfClosed \cup {pfIdx}

\* `continue`: the turn of row pfIdx ends with outcome o
PfContinue(o) ==
    /\ pfOutcome' = [pfOutcome EXCEPT ![pfIdx] = o]
    /\ pfIdx' = pfIdx + 1
    /\ pfPc' = "row"

\* a started download lands in download_dir
PfFileLands ==
    /\ pfPc \notin {"done", "open_tab"}
    /\ \E i \in pfInFlight :
         /\ pfDir' = Append(pfDir, i)
         /\ pfInFlight' = pfInFlight \ {i}
    /\ UNCHANGED <<pfPc, pfFilings, pfIdx, pfBefore, pfNew, pfModal, pfBackdrop,
                   pfOutcome, pdf_summaries, pfRet, pfShown, pfClosed>>
    /\ PdfFrame

\* steps 1 and 2: open the tab, wait for the table, parse it
PfOpenTab ==
    /\ pfPc = "open_tab"
    /\ \E opened \in BOOLEAN, tableSeen \in BOOLEAN :
         IF ~opened THEN pfPc' = "done" /\ pfRet' = "returned"
         ELSE IF ~tableSeen THEN pfPc' = "done" /\ pfRet' = "raised"
         ELSE IF pfFilings = <<>> THEN pfPc' = "done" /\ pfRet' = "returned"
         ELSE pfPc' = "row" /\ pfRet' = pfRet
    /\ pfIdx' = 1
    /\ UNCHANGED <<pfFilings, pfDir, pfInFlight, pfBefore, pfNew, pfModal, pfBackdrop,
                   pfOutcome, pdf_summaries, pfShown, pfClosed>>
    /\ PdfFrame

\* 3a: the loop head, the filing number, the click that opens the modal
PfRow ==
    /\ pfPc = "row"
    /\ IF pfIdx > LastRow
       THEN /\ pfPc' = "done" /\ pfRet' = "returned"
            /\ UNCHANGED <<pfIdx, pfOutcome>>
       ELSE /\ pfRet' = pfRet
            /\ IF ~pfFilings[pfIdx] THEN PfContinue("no_number")
               ELSE \E clicked \in BOOLEAN :
                      IF clicked
                      THEN pfPc' = "modal_wait" /\ UNCHANGED <<pfIdx, pfOutcome>>
                      ELSE PfContinue("not_clicked")
    /\ UNCHANGED <<pfFilings, pfDir, pfInFlight, pfBefore, pfNew, pfModal, pfBackdrop,
                   pdf_summaries, pfShown, pfClosed>>
    /\ PdfFrame

\* 3b: wait for the modal to be displayed
PfModalWait ==
    /\ pfPc = "modal_wait"
    /\ \E shown \in BOOLEAN, stale \in BOOLEAN :
         IF stale
         THEN /\ pfPc' = "done" /\ pfRet' = "raised"
              /\ pfModal' = shown /\ pfBackdrop' = shown
              /\ pfShown' = IF shown THEN pfShown \cup {pfIdx} ELSE pfShown
              /\ UNCHANGED <<pfIdx, pfOutcome, pfClosed>>
         ELSE IF shown
         THEN /\ pfModal' = TRUE /\ pfBackdrop' = TRUE
              /\ pfShown' = pfShown \cup {pfIdx}
              /\ pfPc' = "click_doc"
              /\ UNCHANGED <<pfIdx, pfOutcome, pfRet, pfClosed>>
         ELSE /\ PfCloseModal
              /\ PfContinue("modal_hidden")
              /\ pfRet' = pfRet /\ pfShown' = pfShown
    /\ UNCHANGED <<pfFilings, pfDir, pfInFlight, pfBefore, pfNew, pdf_summaries>>
    /\ PdfFrame

\* 3c: snapshot the directory and click the document's paper icon
PfClickDoc ==
    /\ pfPc = "click_doc"
    /\ pfBefore' = DirFiles(pfDir)
    /\ \E ok2 \in BOOLEAN, started \in BOOLEAN :
         IF ok2
         THEN /\ pfInFlight' = (IF started THEN pfInFlight \cup {pfIdx} ELSE pfInFlight)
              /\ pfPc' = "wait_pdf"
              /\ UNCHANGED <<pfIdx, pfOutcome, pfModal, pfBackdrop, pfClosed>>
         ELSE /\ PfCloseModal
              /\ PfContinue("no_document")
              /\ pfInFlight' = pfInFlight
    /\ UNCHANGED <<pfFilings, pfDir, pfNew, pdf_summaries, pfRet, pfShown>>
    /\ PdfFrame

\* 3d: wait_for_new_pdf finds a new file, or times out
PfWaitNewPdf ==
    /\ pfPc = "wait_pdf"
    /\ LET new_files == DirFiles(pfDir) \ pfBefore IN
       IF new_files # {}
       THEN /\ pfNew' = Newest(pfDir, pfBefore)
            /\ pfPc' = "validate"
            /\ UNCHANGED <<pfIdx, pfOutcome, pfModal, pfBackdrop, pfClosed>>
       ELSE /\ PfCloseModal
            /\ PfContinue("no_file")
            /\ pfNew' = 0
    /\ UNCHANGED <<pfFilings, pfDir, pfInFlight, pfBefore, pdf_summaries, pfRet,
                   pfShown>>
    /\ PdfFrame

\* 3d-2, 3e, 3f: validate (twice at most), close the modal, copy, summarise.
\* f1 and f2 are what the two checks find under new_pdf_path.
PfValidate ==
    /\ pfPc = "validate"
    /\ \E f1 \in FileStates, f2 \in FileStates, copied \in BOOLEAN :
         LET first == is_valid_pdf(f1)
             valid == first \/ is_valid_pdf(f2)
             checked == IF first THEN f1 ELSE f2
         IN /\ PfCloseModal
            /\ IF ~valid
               THEN PfContinue("invalid") /\ pdf_summaries' = pdf_summaries
               ELSE IF copied
               THEN /\ PfContinue("summarised")
                    /\ pdf_summaries' =
                         Append(pdf_summaries,
                                [filing |-> pfIdx, from |-> pfNew, file |-> checked])
               ELSE PfContinue("not_copied") /\ pdf_summaries' = pdf_summaries
    /\ UNCHANGED <<pfFilings, pfDir, pfInFlight, pfBefore, pfNew, pfRet, pfShown>>
    /\ PdfFrame

NextPdf ==
    \/ PfFileLands
    \/ PfOpenTab
    \/ PfRow
    \/ PfModalWait
    \/ PfClickDoc
    \/ PfWaitNewPdf
    \/ PfValidate


-----------------------------------------------------------------------------
(***************************************************************************)
(* scrape_keyword: the form submission, then the pagination loop; on every *)
(* page the model channel's list is walked twice, PASS 1 for the PDFs and  *)
(* PASS 2 for the Business Information record.  The site decides what each *)
(* page lists, whether a capture succeeds, what the pager shows at each    *)
(* read and whether a click on an advance control moves the page.          *)
(***************************************************************************)

\* BusinessIDs are 1..MaxIds
MaxIds == 2

\* the longest list the model channel returns
MaxList == 2

\* the most result pages of a keyword
MaxPages == 2

\* entries of pages_info the model keeps
MaxLog == 2

\* the value at which the model's counters stop counting
MaxCount == 2

\* for attempt in range(1, 4)
FormAttempts == 3

\* while not pager and retry_count < 5
PagerRetries == 5

Ids == 1..MaxIds

\* PDF summaries a PDF pass may bring back
PdfCounts == {0, 1}

\* the lists the model channel may return for a page
ModelLists == UNION {[1..n -> {0} \cup Ids] : n \in 0..MaxList}

\* a counter that never moves, for comparison
SatStuck(n) == n

Sat(n) == IF n < MaxCount THEN n + 1 ELSE n

IdsOf(list) == {list[k] : k \in 1..Len(list)} \ {0}

\* what the results page shows where the pager is
SitePagerHtml(kind, page, total) ==
    CASE kind = "pager" -> PagerText(page, total, 1, 25, 30)
      [] kind = "placeholder" -> PagerText(0, 0, 0, 0, 0)
      [] OTHER -> <<"<html>", " ", "</html>">>

PagerKinds == {"pager", "placeholder", "none"}

\* parse_pager(html) for each page source the site may serve
PagerRead ==
    [kind \in PagerKinds, page \in 1..MaxPages, total \in 1..MaxPages |->
        parse_pager(SitePagerHtml(kind, page, total))]

\* giving up one attempt earlier, for comparison
GiveUpEarly(a) == a >= 2

\* if attempt >= 3: return the failure result
GiveUp(a) == a >= 3

\* a loop that does not remember the BusinessID, for comparison
KeepVisited(visited, id) == visited

\* visited_detail_ids.add(biz_id)
MarkVisited(visited, id) == visited \cup {id}

\* a PASS 2 that skips nothing, for comparison
NeverSkipBI(id) == FALSE

\* if biz_id in visited_detail_ids: continue
SkipBI(id) == id \in visited_detail_ids

\* a PASS 1 that skips nothing, for comparison
NeverSkipPdf(id) == FALSE

\* if biz_id in pdf_data_by_id: continue
SkipPdf(id) == pdf_data_by_id[id] # -1

\* a single retry of the pager read, for comparison
RetryPagerOnce(p, n) == p = None /\ n < 1

\* while not pager and retry_count < 5
RetryPager(p, n) == p = None /\ n < PagerRetries

\* the last-page test with > for >=, for comparison
IsLastPageStrict(current_page, total_pages) == current_page > total_pages

\* if current_page >= total_pages: break
IsLastPage(current_page, total_pages) == current_page >= total_pages

KeywordIdle ==
    /\ kwPc = "idle" /\ attempt = 0 /\ page_index = 0 /\ pages_info = <<>>
    /\ business_list = <<>> /\ local_idx = 0
    /\ pdf_data_by_id = [i \in Ids |-> -1] /\ visited_detail_ids = {}
    /\ html_details_records = <<>> /\ details_failed = 0
    /\ details_success = 0 /\ pdf_success = 0 /\ pdf_fail = 0
    /\ pager = None /\ retry_count = 0 /\ moved = FALSE /\ kwRet = "-"
    /\ sitePage = 0 /\ siteTotal = 0
    /\ kwFormRaises = 0 /\ kwOpens = [i \in Ids |-> 0] /\ kwFirstSeen = [i \in Ids |-> 0]
    /\ kwLateOpen = {} /\ kwReopened = {} /\ kwFailedIds = {} /\ kwNextCalled = FALSE
    /\ kwPageNoCalled = FALSE /\ kwControls = <<>>

InitKeyword ==
    /\ kwPc = "ensure" /\ attempt = 0 /\ page_index = 0 /\ pages_info = <<>>
    /\ business_list = <<>> /\ local_idx = 0
    /\ pdf_data_by_id = [i \in Ids |-> -1] /\ visited_detail_ids = {}
    /\ html_details_records = <<>> /\ details_failed = 0
    /\ details_success = 0 /\ pdf_success = 0 /\ pdf_fail = 0
    /\ pager = None /\ retry_count = 0 /\ moved = FALSE /\ kwRet = "-"
    /\ sitePage = 1 /\ siteTotal \in 1..MaxPages
    /\ kwFormRaises = 0 /\ kwOpens = [i \in Ids |-> 0] /\ kwFirstSeen = [i \in Ids |-> 0]
    /\ kwLateOpen = {} /\ kwReopened = {} /\ kwFailedIds = {} /\ kwNextCalled = FALSE
    /\ kwPageNoCalled = FALSE /\ kwControls = <<>>

\* a count of the businesses PASS 1 got a PDF summary for, for comparison
PdfSuccessOfPass1(records) == Cardinality({i \in Ids : pdf_data_by_id[i] > 0})

\* pdf_success: the records with at least one PDF summary
PdfSuccess(records) ==
    Cardinality({k \in 1..Len(records) : records[k].PDFDownloadedCount > 0})

\* pdf_fail = max(0, details_success - pdf_success)
PdfFail(success, with_pdf) == IF success - with_pdf > 0 THEN success - with_pdf ELSE 0

\* the step that ends with the summary builds its pdf counts; the failure
\* dicts have none
KwSummarised ==
    IF kwPc' = "done" /\ kwRet' = "summary"
    THEN /\ pdf_success' = PdfSuccess(html_details_records')
         /\ pdf_fail' = PdfFail(details_success', pdf_success')
    ELSE UNCHANGED <<pdf_success, pdf_fail>>

\* scrape_keyword returns r
KwReturn(r) == kwPc' = "done" /\ kwRet' = r

\* open_business_info_for_row(biz_id) is called: the ghost bookkeeping
KwOpened(id, again) ==
    /\ kwOpens' = [kwOpens EXCEPT ![id] = @ + 1]
    /\ kwLateOpen' = IF kwFirstSeen[id] # sitePage THEN kwLateOpen \cup {id} ELSE kwLateOpen
    /\ kwReopened' = IF again THEN kwReopened \cup {id} ELSE kwReopened

\* if not ensure_advanced_search(sb): return the failure result
KwEnsure ==
    /\ kwPc = "ensure"
    /\ \E ok \in BOOLEAN :
         IF ok THEN kwPc' = "form" /\ attempt' = 1 /\ kwRet' = kwRet
         ELSE KwReturn("failure") /\ attempt' = attempt
    /\ UNCHANGED <<page_index, local_idx, retry_count, moved, kwData, kwSite, kwGhost>>
    /\ KwSummarised
    /\ KeywordFrame

\* one turn of the form-submission loop
KwFormAttempt ==
    /\ kwPc = "form"
    /\ IF attempt > FormAttempts
       THEN \* the loop ran out: if not form_ok
            /\ KwReturn("failure")
            /\ UNCHANGED <<attempt, page_index, kwFormRaises>>
       ELSE \E raises \in BOOLEAN :
              IF ~raises
              THEN /\ kwPc' = "page" /\ page_index' = 1
                   /\ UNCHANGED <<attempt, kwRet, kwFormRaises>>
              ELSE /\ kwFormRaises' = kwFormRaises + 1
                   /\ page_index' = page_index
                   /\ IF GiveUp(attempt)
                      THEN KwReturn("failure") /\ attempt' = attempt
                      ELSE attempt' = attempt + 1 /\ UNCHANGED <<kwPc, kwRet>>
    /\ UNCHANGED <<local_idx, retry_count, moved, kwData, kwSite, kwOpens, kwFirstSeen,
                   kwLateOpen, kwReopened, kwFailedIds, kwNextCalled, kwPageNoCalled,
                   kwControls>>
    /\ KwSummarised
    /\ KeywordFrame

\* what the script of the model channel comes back with: execute_async_script
\* or json.loads raised, the script answered ok: false, or it answered the list
ChannelAnswers ==
    {[kind |-> k, data |-> <<>>] : k \in {"raised", "not ok"}}
      \cup {[kind |-> "ok", data |-> l] : l \in ModelLists}

\* a channel that lets the exception of its script out, for comparison
get_business_list_raising(ans) ==
    [raised |-> ans.kind = "raised",
     list |-> IF ans.kind = "ok" THEN ans.data ELSE <<>>]

\* except Exception: return []; if not result.get("ok"): return [];
\* return result.get("data") or []
get_business_list_via_angular(ans) ==
    [raised |-> FALSE, list |-> IF ans.kind = "ok" THEN ans.data ELSE <<>>]

\* the head of the pagination loop: the page source, its rows, the model
\* channel's list; 'if business_list:' guards the two passes
KwReadPage ==
    /\ kwPc = "page"
    /\ pages_info' = IF Len(pages_info) < MaxLog THEN Append(pages_info, page_index)
                     ELSE pages_info
    /\ \E ans \in ChannelAnswers :
         LET got == get_business_list_via_angular(ans) IN
         IF got.raised
         THEN /\ KwReturn("raised")
              /\ UNCHANGED <<business_list, kwFirstSeen>>
         ELSE /\ business_list' = got.list
              /\ kwFirstSeen' = [i \in Ids |->
                                   IF kwFirstSeen[i] = 0 /\ i \in IdsOf(got.list)
                                   THEN sitePage ELSE kwFirstSeen[i]]
              /\ kwPc' = IF got.list # <<>> THEN "pass1" ELSE "pager"
              /\ kwRet' = kwRet
    /\ local_idx' = 1
    /\ kwOpens' = [i \in Ids |-> 0]
    /\ UNCHANGED <<attempt, page_index, retry_count, moved, pdf_data_by_id,
                   visited_detail_ids, html_details_records, details_failed, details_success, pager,
                   kwSite, kwFormRaises, kwLateOpen, kwReopened, kwFailedIds,
                   kwNextCalled,
                   kwPageNoCalled, kwControls>>
    /\ KwSummarised
    /\ KeywordFrame

\* PASS 1, one business: scrape_pdfs_for_business
KwPdfPass ==
    /\ kwPc = "pass1"
    /\ IF local_idx > Len(business_list)
       THEN /\ kwPc' = "pass2" /\ local_idx' = 1
            /\ UNCHANGED <<pdf_data_by_id, kwOpens, kwLateOpen, kwReopened>>
       ELSE LET biz_id == business_list[local_idx] IN
            /\ kwPc' = kwPc /\ local_idx' = local_idx + 1
            /\ IF biz_id = 0 \/ SkipPdf(biz_id)
               THEN UNCHANGED <<pdf_data_by_id, kwOpens, kwLateOpen, kwReopened>>
               ELSE /\ KwOpened(biz_id, pdf_data_by_id[biz_id] # -1
                                          \/ biz_id \in visited_detail_ids)
                    /\ \E raised \in BOOLEAN, n \in PdfCounts :
                         pdf_data_by_id' =
                           [pdf_data_by_id EXCEPT ![biz_id] =
                              IF raised THEN (IF @ = -1 THEN 0 ELSE @) ELSE n]
    /\ UNCHANGED <<attempt, page_index, retry_count, moved, kwRet, pages_info,
                   business_list, visited_detail_ids, html_details_records,
                   details_failed, details_success, pager, kwSite, kwFormRaises, kwFirstSeen,
                   kwNextCalled, kwPageNoCalled, kwFailedIds, kwControls>>
    /\ KwSummarised
    /\ KeywordFrame

\* PASS 2, one business: fetch_business_information_via_html and the merge
KwBIPass ==
    /\ kwPc = "pass2"
    /\ IF local_idx > Len(business_list)
       THEN /\ kwPc' = "pager" /\ local_idx' = local_idx
            /\ UNCHANGED <<visited_detail_ids, html_details_records, details_failed,
                           details_success, kwOpens, kwLateOpen, kwReopened,
                           kwFailedIds>>
       ELSE LET biz_id == business_list[local_idx] IN
            /\ kwPc' = kwPc /\ local_idx' = local_idx + 1
            /\ IF biz_id = 0 \/ SkipBI(biz_id)
               THEN UNCHANGED <<visited_detail_ids, html_details_records,
                                details_failed, details_success, kwOpens,
                                kwLateOpen, kwReopened, kwFailedIds>>
               ELSE /\ KwOpened(biz_id, biz_id \in visited_detail_ids)
                    /\ \E rec \in BOOLEAN :
                         IF rec
                         THEN /\ html_details_records' =
                                   Append(html_details_records,
                                          [BusinessID |-> biz_id,
                                           PDFDownloadedCount |->
                                             IF pdf_data_by_id[biz_id] = -1 THEN 0
                                             ELSE pdf_data_by_id[biz_id]])
                              /\ visited_detail_ids' =
                                   MarkVisited(visited_detail_ids, biz_id)
                              /\ details_failed' = details_failed
                              /\ details_success' = details_success + 1
                              /\ kwFailedIds' = kwFailedIds
                         ELSE /\ details_failed' = Sat(details_failed)
                              /\ details_success' = details_success
                              /\ kwFailedIds' = kwFailedIds \cup {biz_id}
                              /\ UNCHANGED <<visited_detail_ids, html_details_records>>
    /\ UNCHANGED <<attempt, page_index, retry_count, moved, kwRet, pages_info,
                   business_list, pdf_data_by_id, pager, kwSite, kwFormRaises,
                   kwFirstSeen, kwNextCalled, kwPageNoCalled, kwControls>>
    /\ KwSummarised
    /\ KeywordFrame

\* pager = parse_pager(html); retry_count = 0
KwReadPager ==
    /\ kwPc = "pager"
    /\ \E kind \in PagerKinds : pager' = PagerRead[kind, sitePage, siteTotal]
    /\ retry_count' = 0
    /\ kwPc' = "pager_retry"
    /\ UNCHANGED <<attempt, page_index, local_idx, moved, kwRet, pages_info,
                   business_list, pdf_data_by_id, visited_detail_ids,
                   html_details_records, details_failed, details_success, kwSite, kwGhost>>
    /\ KwSummarised
    /\ KeywordFrame

\* the retry loop of the pager read, one turn, or what follows the loop:
\* no pager, the last page, or on to the advance controls
KwPagerLoop ==
    /\ kwPc = "pager_retry"
    /\ IF RetryPager(pager, retry_count)
       THEN /\ \E kind \in PagerKinds : pager' = PagerRead[kind, sitePage, siteTotal]
            /\ retry_count' = retry_count + 1
            /\ UNCHANGED <<kwPc, kwRet, page_index>>
       ELSE /\ pager' = pager
            /\ IF pager = None
               THEN KwReturn("summary") /\ UNCHANGED <<page_index, retry_count>>
               ELSE /\ page_index' = pager.page
                    /\ IF IsLastPage(pager.page, pager.total_pages)
                       THEN KwReturn("summary") /\ retry_count' = retry_count
                       ELSE \* retry_count is set to 0 before it is read again
                            kwPc' = "advance" /\ kwRet' = kwRet /\ retry_count' = 0
    /\ UNCHANGED <<attempt, local_idx, moved, pages_info, business_list,
                   pdf_data_by_id, visited_detail_ids, html_details_records,
                   details_failed, details_success, kwSite, kwGhost>>
    /\ KwSummarised
    /\ KeywordFrame

\* an advance that calls both controls whatever the first answered, for comparison
ControlsBoth(nextOk, pageOk, next_page) ==
    <<[control |-> "next", page |-> 0, invoked |-> nextOk],
      [control |-> "page_number", page |-> next_page, invoked |-> pageOk]>>

\* moved = click_next_js(sb); if not moved: moved = click_page_number_js(sb, next_page)
Controls(nextOk, pageOk, next_page) ==
    IF nextOk
    THEN <<[control |-> "next", page |-> 0, invoked |-> TRUE]>>
    ELSE <<[control |-> "next", page |-> 0, invoked |-> FALSE],
           [control |-> "page_number", page |-> next_page, invoked |-> pageOk]>>

\* the advance of the pagination loop: the controls are called, and the loop
\* goes on if one of them could be invoked (execute_script did not raise)
KwAdvance ==
    /\ kwPc = "advance"
    /\ \E nextOk \in BOOLEAN, pageOk \in BOOLEAN, arrives \in BOOLEAN :
         LET called == Controls(nextOk, pageOk, pager.page + 1)
             mv == called[Len(called)].invoked IN
         /\ moved' = mv
         /\ kwControls' = called
         /\ kwNextCalled' = TRUE
         /\ kwPageNoCalled' = (kwPageNoCalled \/ Len(called) > 1)
         /\ sitePage' = IF mv /\ arrives /\ sitePage < siteTotal THEN sitePage + 1
                        ELSE sitePage
         /\ IF mv
            THEN kwPc' = "page" /\ page_index' = page_index + 1 /\ kwRet' = kwRet
            ELSE KwReturn("summary") /\ page_index' = page_index
    /\ UNCHANGED <<attempt, local_idx, retry_count, kwData, siteTotal, kwFormRaises,
                   kwOpens, kwFirstSeen, kwLateOpen, kwReopened, kwFailedIds>>
    /\ KwSummarised
    /\ KeywordFrame

NextKeyword ==
    \/ KwEnsure
    \/ KwFormAttempt
    \/ KwReadPage
    \/ KwPdfPass
    \/ KwBIPass
    \/ KwReadPager
    \/ KwPagerLoop
    \/ KwAdvance


-----------------------------------------------------------------------------
(***************************************************************************)
(* assign_proxies_for_batch.  all_proxies is a fixed list; the liveness    *)
(* probe of a proxy (is_proxy_working) may succeed at one call and fail at *)
(* the next; random.choice is any member of the remaining candidates.  The *)
(* excluded set is the caller's and outlives the call.                     *)
(***************************************************************************)

\* the proxies of the list are 1..MaxProxies
MaxProxies == 3

\* the keywords are 1..MaxKw
MaxKw == 2

\* the largest batch_size
MaxBatch == 2

all_proxies == 1..MaxProxies

Keywords == 1..MaxKw

\* the keyword lists handed to the function: any list without repeats
KeywordLists ==
    {l \in UNION {[1..n -> Keywords] : n \in 0..MaxKw} :
        \A i, j \in 1..Len(l) : i # j => l[i] # l[j]}

\* keywords[:batch_size]
batch_keywords ==
    SubSeq(apKeywords, 1, IF batch_size < Len(apKeywords) THEN batch_size
                          ELSE Len(apKeywords))

\* the remaining candidates without the used_in_batch test, for comparison
RemainingAny(cands, used, excl) == {p \in cands : p \notin excl}

\* [p for p in candidate_proxies if p not in used_in_batch and p not in excluded]
Remaining(cands, used, excl) == {p \in cands : p \notin used /\ p \notin excl}

\* a failed probe that excludes nothing, for comparison
ExcludeNothing(excl, p) == excl

\* excluded.add(candidate)
Exclude(excl, p) == excl \cup {p}

AssignIdle ==
    /\ apPc = "idle" /\ apKeywords = <<>> /\ batch_size = 0
    /\ excluded = {} /\ exc_file = <<>> /\ candidate_proxies = {}
    /\ used_in_batch = {} /\ assignments = [k \in Keywords |-> 0]
    /\ apIdx = 0 /\ apRet = "-" /\ apFailed = {} /\ apPassed = {}
    /\ apProbedAgain = FALSE

InitAssign ==
    /\ apPc = "start"
    /\ apKeywords \in KeywordLists /\ batch_size \in 0..MaxBatch
    /\ excluded \in SUBSET all_proxies /\ exc_file = <<>>
    /\ candidate_proxies = {} /\ used_in_batch = {}
    /\ assignments = [k \in Keywords |-> 0]
    /\ apIdx = 0 /\ apRet = "-" /\ apFailed = {} /\ apPassed = {}
    /\ apProbedAgain = FALSE

\* the function returns, or raises
ApEnd(r) == apPc' = "done" /\ apRet' = r

\* the candidates, the batch, the empty assignment
ApStart ==
    /\ apPc = "start"
    /\ candidate_proxies' = {p \in all_proxies : p \notin excluded}
    /\ used_in_batch' = {} /\ assignments' = [k \in Keywords |-> 0]
    /\ apPassed' = {}
    /\ IF candidate_proxies' = {}
       THEN ApEnd("RuntimeError") /\ apIdx' = 0
       ELSE IF batch_keywords = <<>>
            THEN ApEnd("returned") /\ apIdx' = 0
            ELSE apPc' = "loop" /\ apIdx' = 1 /\ apRet' = apRet
    /\ UNCHANGED <<apKeywords, batch_size, excluded, exc_file, apFailed, apProbedAgain>>
    /\ AssignFrame

\* one turn of the while True loop for keyword batch_keywords[apIdx]: no
\* candidate remains, or one is picked and probed
ApProbe ==
    /\ apPc = "loop"
    /\ LET remaining == Remaining(candidate_proxies, used_in_batch, excluded)
           kw == batch_keywords[apIdx]
       IN IF remaining = {}
          THEN /\ ApEnd("RuntimeError")
               /\ UNCHANGED <<excluded, exc_file, used_in_batch, assignments, apIdx,
                              apFailed, apPassed, apProbedAgain>>
          ELSE \E candidate \in remaining, works \in BOOLEAN :
                 /\ apProbedAgain' = (apProbedAgain \/ candidate \in apFailed)
                 /\ IF works
                    THEN /\ used_in_batch' = used_in_batch \cup {candidate}
                         /\ assignments' = [assignments EXCEPT ![kw] = candidate]
                         /\ apPassed' = apPassed \cup {candidate}
                         /\ IF apIdx = Len(batch_keywords)
                            THEN ApEnd("returned") /\ apIdx' = apIdx
                            ELSE apIdx' = apIdx + 1 /\ UNCHANGED <<apPc, apRet>>
                         /\ UNCHANGED <<excluded, exc_file, apFailed>>
                    ELSE /\ excluded' = Exclude(excluded, candidate)
                         /\ exc_file' = Append(exc_file, candidate)
                         /\ apFailed' = apFailed \cup {candidate}
                         /\ UNCHANGED <<apPc, apRet, apIdx, used_in_batch, assignments,
                                        apPassed>>
    /\ UNCHANGED <<apKeywords, batch_size, candidate_proxies>>
    /\ AssignFrame

\* the function is called again in the same run, with the same excluded set
ApAgain ==
    /\ apPc = "done"
    /\ apPc' = "start" /\ apRet' = "-"
    /\ apKeywords' \in KeywordLists /\ batch_size' \in 0..MaxBatch
    /\ UNCHANGED <<excluded, exc_file, candidate_proxies, used_in_batch, assignments,
                   apIdx, apFailed, apPassed, apProbedAgain>>
    /\ AssignFrame

NextAssign ==
    \/ ApStart
    \/ ApProbe
    \/ ApAgain

-----------------------------------------------------------------------------
(***************************************************************************)
(* run_letter: resume from the tracking file, then the keywords of the      *)
(* letter, through a pool of workers with one proxy each (proxy_list) or    *)
(* one after the other in a single session (proxy, direct).                 *)
(***************************************************************************)

Modes == {"proxy_list", "proxy", "direct"}

Positions == 1..MaxKw

\* the keyword file of a letter: each keyword once (create_keywords.py)
KeywordFiles == KeywordLists

\* a tracking file that is missing, is not JSON or is not a list of entries
Unreadable == [readable |-> FALSE, entries |-> <<>>]

\* a tracking file that holds a list of entries
ListFile(entries) == [readable |-> TRUE, entries |-> entries]

\* an entry of an earlier run; keyword 0 stands for an entry without keyword
PriorEntry(k) ==
    [keyword |-> k, records_scraped |-> 1, details_success |-> 1,
     api_records |-> 1, error |-> FALSE]

PriorFiles ==
    {Unreadable} \cup
    {ListFile(l) :
       l \in UNION {[1..n -> {PriorEntry(k) : k \in 0..MaxKw}] : n \in 0..MaxKw}}

\* load_existing_tracking: the entries
ExistingTracking(file) == IF file.readable THEN file.entries ELSE <<>>

\* load_existing_tracking: the done keywords
DoneKeywords(file) ==
    LET data == ExistingTracking(file)
    IN {data[i].keyword : i \in {j \in 1..Len(data) : data[j].keyword # 0}}

\* a pending list that filters nothing, for comparison
PendingAll(kws, done) == kws

\* [kw for kw in keywords if kw not in done_keywords]
Pending(kws, done) == SelectSeq(kws, LAMBDA kw : kw \notin done)

\* a failure dict that counts the search page as visited, for comparison
FormFailureOnePage(kw) ==
    [keyword |-> kw, pages_visited |-> 1, records_scraped |-> 0,
     details_success |-> 0, api_records |-> 0]

\* the failure dict of scrape_keyword after the third failed form attempt
FormFailure(kw) ==
    [keyword |-> kw, pages_visited |-> 0, records_scraped |-> 0,
     details_success |-> 0, api_records |-> 0]

\* the summaries scrape_keyword returns once the form went through
Summaries(kw) ==
    {[keyword |-> kw, pages_visited |-> 1, records_scraped |-> r,
      details_success |-> d, api_records |-> r] : r \in 0..1, d \in 0..1}

\* what a scrape of kw does: it returns a result, or it raises
ScrapeOutcomes(kw) ==
    {[raised |-> FALSE, formfail |-> TRUE, result |-> FormFailure(kw)]}
    \cup {[raised |-> FALSE, formfail |-> FALSE, result |-> s] : s \in Summaries(kw)}
    \cup {[raised |-> TRUE, formfail |-> FALSE, result |-> FormFailure(kw)]}

\* the tracking entry built from a result
TrackingEntry(kw, result) ==
    [keyword |-> kw, records_scraped |-> result.records_scraped,
     details_success |-> result.details_success,
     api_records |-> result.api_records, error |-> FALSE]

\* an except branch that records nothing useful, for comparison
ErrorEntryPlain(kw) ==
    [keyword |-> kw, records_scraped |-> 0, details_success |-> 0,
     api_records |-> 0, error |-> FALSE]

\* the tracking entry of the except branches
ErrorEntry(kw) ==
    [keyword |-> kw, records_scraped |-> 0, details_success |-> 0,
     api_records |-> 0, error |-> TRUE]

\* a results file that is missing or is not a JSON object with a keywords list
NoResults == [readable |-> FALSE, keywords |-> {}]

\* a results file {"letter": ..., "keywords": [...]} (the order of the list is
\* not kept)
ResultsFile(items) == [readable |-> TRUE, keywords |-> items]

\* the result an earlier run stored for keyword k
PriorResult(k) ==
    [keyword |-> k, pages_visited |-> 1, records_scraped |-> 1,
     details_success |-> 1, api_records |-> 1]

\* wa_results_<letter>.json as a run can find it: written by the end of an
\* earlier run that got there, with the results it had, or not there
PriorResultsFiles(tracking) ==
    {NoResults} \cup
    {ResultsFile({PriorResult(k) : k \in S}) :
       S \in (SUBSET DoneKeywords(tracking)) \ {{}}}

\* wa_results_tracking_<letter>.json as the flushes of the earlier run left it
PriorFlushedResults(tracking) ==
    IF DoneKeywords(tracking) = {} THEN NoResults
    ELSE ResultsFile({PriorResult(k) : k \in DoneKeywords(tracking)})

\* load_existing_results: keyword -> result dict
load_existing_results(file) ==
    [k \in Keywords |->
       IF file.readable /\ \E item \in file.keywords : item.keyword = k
       THEN <<CHOOSE item \in file.keywords : item.keyword = k>>
       ELSE <<>>]

\* list(result_map.values())
Values(map) == {map[k][1] : k \in {j \in Keywords : map[j] # <<>>}}

RunIdle ==
    /\ rlPc = "idle" /\ rlMode = "direct" /\ max_workers = 0
    /\ rlKeywordFile = <<>> /\ rlPriorFile = Unreadable /\ tracking_file = Unreadable
    /\ pending_keywords = <<>> /\ tracking_combined = <<>>
    /\ result_map = [k \in Keywords |-> <<>>]
    /\ results_file = NoResults /\ results_tracking_file = NoResults
    /\ kw_iter = 0 /\ future_to_kw = {} /\ rlDone = {} /\ rlCaller = "-"
    /\ rlPrimed = 0 /\ rlNext = 0
    /\ rlScrapes = [i \in Positions |-> 0]
    /\ rlFormFailed = {} /\ rlRaised = {} /\ rlDropped = {}

InitRun ==
    /\ rlPc = "load" /\ rlMode \in Modes /\ max_workers \in 1..MaxBatch
    /\ rlKeywordFile \in KeywordFiles /\ rlPriorFile \in PriorFiles
    /\ tracking_file = rlPriorFile
    /\ pending_keywords = <<>> /\ tracking_combined = <<>>
    /\ result_map = [k \in Keywords |-> <<>>]
    /\ results_file \in PriorResultsFiles(rlPriorFile)
    /\ results_tracking_file = PriorFlushedResults(rlPriorFile)
    /\ kw_iter = 0 /\ future_to_kw = {} /\ rlDone = {} /\ rlCaller = "-"
    /\ rlPrimed = 0 /\ rlNext = 0
    /\ rlScrapes = [i \in Positions |-> 0]
    /\ rlFormFailed = {} /\ rlRaised = {} /\ rlDropped = {}

RunGhosts == <<rlScrapes, rlFormFailed, rlRaised, rlDropped>>

RunInputs == <<rlMode, max_workers, rlKeywordFile, rlPriorFile>>

\* keywords, resume, and the branch on the mode
RlLoad ==
    /\ rlPc = "load"
    /\ IF rlKeywordFile = <<>>
       THEN /\ rlPc' = "done"
            /\ UNCHANGED <<pending_keywords, tracking_combined, result_map, kw_iter,
                           rlCaller, excluded>>
       ELSE /\ pending_keywords' = Pending(rlKeywordFile, DoneKeywords(rlPriorFile))
            /\ tracking_combined' = ExistingTracking(rlPriorFile)
            /\ result_map' = load_existing_results(results_file)
            /\ kw_iter' = 1
            /\ IF rlMode = "proxy_list"
               THEN /\ excluded' \in SUBSET all_proxies
                    /\ rlPc' = "pull" /\ rlCaller' = "prime"
               ELSE /\ rlPc' \in {"seq", "raised"}
                    /\ UNCHANGED <<rlCaller, excluded>>
    /\ UNCHANGED <<tracking_file, results_file, results_tracking_file, future_to_kw,
                   rlDone, rlPrimed, rlNext>>
    /\ UNCHANGED <<RunInputs, RunGhosts>>
    /\ UNCHANGED <<apPc, apKeywords, batch_size, exc_file, candidate_proxies,
                   used_in_batch, assignments, apIdx, apRet, apFailed, apPassed,
                   apProbedAgain>>
    /\ RunFrame

\* a priming loop of one more turn, for comparison
PrimingOneMore(n, batch) == n = batch + 1

\* for _ in range(batch_size): the priming loop has run out
PrimingEnds(n, batch) == n = batch

\* get_next_assignment returned to its caller: the priming loop or the refill
RlGot(pos, px) ==
    /\ IF pos = 0
       THEN UNCHANGED <<future_to_kw, rlScrapes>>
       ELSE /\ future_to_kw' = future_to_kw \cup
                  {[pos |-> pos, kw |-> pending_keywords[pos], px |-> px]}
            /\ rlScrapes' = [rlScrapes EXCEPT ![pos] = @ + 1]
    /\ IF rlCaller = "prime"
       THEN /\ rlPrimed' = rlPrimed + 1
            /\ rlPc' = IF pos = 0 \/ PrimingEnds(rlPrimed', max_workers) THEN "wait"
                       ELSE "pull"
       ELSE /\ rlPrimed' = rlPrimed
            /\ rlPc' = IF rlDone = {} THEN "wait" ELSE "handle"

\* get_next_assignment: next(kw_iter), then the call of assign_proxies_for_batch
RlPull ==
    /\ rlPc = "pull"
    /\ IF kw_iter > Len(pending_keywords)
       THEN /\ RlGot(0, 0)
            /\ UNCHANGED <<kw_iter, rlNext, apPc, apKeywords, batch_size, apRet>>
       ELSE /\ rlNext' = kw_iter /\ kw_iter' = kw_iter + 1
            /\ apKeywords' = <<pending_keywords[kw_iter]>> /\ batch_size' = 1
            /\ apPc' = "start" /\ apRet' = "-"
            /\ rlPc' = "assign"
            /\ UNCHANGED <<future_to_kw, rlScrapes, rlPrimed>>
    /\ UNCHANGED <<tracking_file, pending_keywords, tracking_combined, result_map,
                   results_file, results_tracking_file,
                   rlDone, rlCaller, rlFormFailed, rlRaised, rlDropped>>
    /\ UNCHANGED RunInputs
    /\ UNCHANGED <<excluded, exc_file, candidate_proxies, used_in_batch, assignments,
                   apIdx, apFailed, apPassed, apProbedAgain>>
    /\ RunFrame

\* assign_proxies_for_batch, called by get_next_assignment
RlAssignStart == rlPc = "assign" /\ ApStart

RlAssignProbe == rlPc = "assign" /\ ApProbe

\* get_next_assignment: the assignment, or (None, None) on RuntimeError
RlAssigned ==
    /\ rlPc = "assign" /\ apPc = "done"
    /\ apPc' = "idle"
    /\ IF apRet = "RuntimeError"
       THEN RlGot(0, 0) /\ rlDropped' = rlDropped \cup {rlNext}
       ELSE RlGot(rlNext, assignments[pending_keywords[rlNext]])
            /\ rlDropped' = rlDropped
    /\ UNCHANGED <<tracking_file, pending_keywords, tracking_combined, result_map,
                   results_file, results_tracking_file,
                   kw_iter, rlDone, rlCaller, rlNext, rlFormFailed, rlRaised>>
    /\ UNCHANGED RunInputs
    /\ UNCHANGED <<apKeywords, batch_size, excluded, exc_file, candidate_proxies,
                   used_in_batch, assignments, apIdx, apRet, apFailed, apPassed,
                   apProbedAgain>>
    /\ RunFrame

\* while future_to_kw: wait(..., return_when=FIRST_COMPLETED)
RlWait ==
    /\ rlPc = "wait"
    /\ IF future_to_kw = {}
       THEN rlPc' = "end" /\ rlDone' = rlDone
       ELSE /\ rlDone' \in (SUBSET future_to_kw) \ {{}}
            /\ rlPc' = "handle"
    /\ UNCHANGED <<tracking_file, pending_keywords, tracking_combined, result_map,
                   results_file, results_tracking_file,
                   kw_iter, future_to_kw, rlCaller, rlPrimed, rlNext>>
    /\ UNCHANGED <<RunInputs, RunGhosts, assignVars>>
    /\ RunFrame

\* an outcome kept in memory only, the file written at the end, for comparison
RecordUnflushed(pos, kw, out) ==
    /\ tracking_combined' =
         Append(tracking_combined,
                IF out.raised THEN ErrorEntry(kw) ELSE TrackingEntry(kw, out.result))
    /\ result_map' = IF out.raised THEN result_map
                     ELSE [result_map EXCEPT ![out.result.keyword] = <<out.result>>]
    /\ tracking_file' = tracking_file
    /\ results_tracking_file' = results_tracking_file
    /\ rlRaised' = IF out.raised THEN rlRaised \cup {pos} ELSE rlRaised
    /\ rlFormFailed' = IF out.formfail THEN rlFormFailed \cup {pos} ELSE rlFormFailed

\* the outcome of one scrape is recorded and both files are flushed
Record(pos, kw, out) ==
    /\ tracking_combined' =
         Append(tracking_combined,
                IF out.raised THEN ErrorEntry(kw) ELSE TrackingEntry(kw, out.result))
    /\ result_map' = IF out.raised THEN result_map
                     ELSE [result_map EXCEPT ![out.result.keyword] = <<out.result>>]
    /\ results_tracking_file' = ResultsFile(Values(result_map'))
    /\ tracking_file' = ListFile(tracking_combined')
    /\ rlRaised' = IF out.raised THEN rlRaised \cup {pos} ELSE rlRaised
    /\ rlFormFailed' = IF out.formfail THEN rlFormFailed \cup {pos} ELSE rlFormFailed

\* for fut in done: the worker's outcome is recorded, then the slot is refilled
RlHandle ==
    /\ rlPc = "handle"
    /\ \E fut \in rlDone :
         /\ future_to_kw' = future_to_kw \ {fut}
         /\ rlDone' = rlDone \ {fut}
         /\ \E out \in ScrapeOutcomes(fut.kw) : Record(fut.pos, fut.kw, out)
    /\ rlPc' = "pull" /\ rlCaller' = "refill"
    /\ UNCHANGED <<pending_keywords, results_file, kw_iter, rlPrimed, rlNext,
                   rlScrapes, rlDropped>>
    /\ UNCHANGED <<RunInputs, assignVars>>
    /\ RunFrame

\* for idx, keyword in enumerate(keywords, start=1), in the one session
RlSeq ==
    /\ rlPc = "seq"
    /\ IF kw_iter > Len(pending_keywords)
       THEN /\ rlPc' = "end"
            /\ UNCHANGED <<tracking_file, tracking_combined, result_map,
                           results_tracking_file, kw_iter, RunGhosts>>
       ELSE /\ \E out \in ScrapeOutcomes(pending_keywords[kw_iter]) :
                 Record(kw_iter, pending_keywords[kw_iter], out)
            /\ rlScrapes' = [rlScrapes EXCEPT ![kw_iter] = @ + 1]
            /\ kw_iter' = kw_iter + 1
            /\ UNCHANGED <<rlPc, rlDropped>>
    /\ UNCHANGED <<pending_keywords, results_file, future_to_kw, rlDone, rlCaller,
                   rlPrimed, rlNext>>
    /\ UNCHANGED <<RunInputs, assignVars>>
    /\ RunFrame

\* the combined results and the tracking file are written; run_letter returns
RlEnd ==
    /\ rlPc = "end"
    /\ results_file' = ResultsFile(Values(result_map))
    /\ tracking_file' = ListFile(tracking_combined)
    /\ rlPc' = "done"
    /\ UNCHANGED <<pending_keywords, tracking_combined, result_map,
                   results_tracking_file, kw_iter,
                   future_to_kw, rlDone, rlCaller, rlPrimed, rlNext>>
    /\ UNCHANGED <<RunInputs, RunGhosts, assignVars>>
    /\ RunFrame

NextRun ==
    \/ RlLoad
    \/ RlPull
    \/ RlAssignStart
    \/ RlAssignProbe
    \/ RlAssigned
    \/ RlWait
    \/ RlHandle
    \/ RlSeq
    \/ RlEnd

-----------------------------------------------------------------------------
(***************************************************************************)
(* The detail captures of one grid page: PASS 1 runs                       *)
(* scrape_pdfs_for_business for every entity of business_list, PASS 2      *)
(* runs fetch_business_information_via_html for every entity.              *)
(***************************************************************************)

Views == {"results", "detail", "filing_history", "other"}

\* for _ in range(15): the reads of the Business Name
NamePolls == 15

\* what click_back_with_cf hands back ("raised": it raised instead)
BackResults == {"True", "False", "raised"}

DetailIdle ==
    /\ dtPc = "idle" /\ dtPass = "-" /\ dtN = 0 /\ dtIdx = 0
    /\ dtView = "results" /\ dtBack = FALSE /\ dtLog = <<>>
    /\ dtName = "-" /\ dtPolls = 0 /\ dtSuccess = 0 /\ dtFailed = 0

InitDetail ==
    /\ dtPc = "open" /\ dtPass = "pdf" /\ dtN \in 1..MaxIds /\ dtIdx = 1
    /\ dtView \in Views /\ dtBack = FALSE /\ dtLog = <<>>
    /\ dtName = "-" /\ dtPolls = 0 /\ dtSuccess = 0 /\ dtFailed = 0

\* the capture returns to scrape_keyword (or raises into its except branch);
\* rec: fetch_business_information_via_html returned a record
DtReturn(exit, back, ret, rec) ==
    /\ dtPc' = "returned"
    /\ dtLog' = Append(dtLog, [pass |-> dtPass, exit |-> exit, back |-> back,
                               name |-> dtName, ret |-> ret, rec |-> rec])

\* opened = open_business_info_for_row(...); if not opened: return
DtOpen ==
    /\ dtPc = "open"
    /\ \E opened \in BOOLEAN :
         IF opened
         THEN /\ dtView' = "detail"
              /\ dtPc' = IF dtPass = "pdf" THEN "filing" ELSE "script"
              /\ UNCHANGED dtLog
         ELSE /\ dtView' \in Views \ {"detail"}
              /\ DtReturn("open failure", dtBack, "-", FALSE)
    /\ UNCHANGED <<dtPass, dtN, dtIdx, dtBack, dtName, dtPolls, dtSuccess, dtFailed>>
    /\ DetailFrame

\* filings, pdf_summaries = scrape_filing_history_and_pdfs(...), outside any try
DtFiling ==
    /\ dtPc = "filing"
    /\ dtView' \in {"detail", "filing_history"}
    /\ \E raises \in BOOLEAN :
         IF raises
         THEN DtReturn("exception in the filing-history sub-flow", dtBack, "-", FALSE)
         ELSE dtPc' = "back" /\ UNCHANGED dtLog
    /\ UNCHANGED <<dtPass, dtN, dtIdx, dtBack, dtName, dtPolls, dtSuccess, dtFailed>>
    /\ DetailFrame

\* sb.execute_script(open_js, biz_id); except Exception: return None
DtScript ==
    /\ dtPc = "script"
    /\ \E raises \in BOOLEAN :
         IF raises
         THEN DtReturn("script error", dtBack, "-", FALSE)
         ELSE dtPc' = "container" /\ UNCHANGED dtLog
    /\ UNCHANGED <<dtPass, dtN, dtIdx, dtView, dtBack, dtName, dtPolls, dtSuccess,
                   dtFailed>>
    /\ DetailFrame

\* sb.wait_for_element("#divBusinessInformation"); except Exception: return None
DtContainer ==
    /\ dtPc = "container"
    /\ \E timeout \in BOOLEAN :
         IF timeout
         THEN DtReturn("container timeout", dtBack, "-", FALSE)
              /\ dtView' \in Views \ {"detail"}
         ELSE dtPc' = "name" /\ UNCHANGED <<dtLog, dtView>>
    /\ dtName' = IF dtPc' = "name" THEN "empty" ELSE dtName
    /\ dtPolls' = 0
    /\ UNCHANGED <<dtPass, dtN, dtIdx, dtBack, dtSuccess, dtFailed>>
    /\ DetailFrame

\* one turn of the name polling; 'if not actual_name: pass', and after the loop
\* the page is parsed into the record
DtName ==
    /\ dtPc = "name"
    /\ \E actual_name \in {"empty", "shown"} :
         /\ dtName' = actual_name
         /\ dtPolls' = dtPolls + 1
         /\ IF actual_name = "shown" \/ dtPolls' = NamePolls
            THEN dtPc' = "back" /\ UNCHANGED dtLog
            ELSE UNCHANGED <<dtPc, dtLog>>
    /\ UNCHANGED <<dtPass, dtN, dtIdx, dtView, dtBack, dtSuccess, dtFailed>>
    /\ DetailFrame

\* try: click_back_with_cf(...); dismiss_any_alert(sb); except: pass; return:
\* the value click_back_with_cf gives is not kept
DtBack ==
    /\ dtPc = "back"
    /\ dtBack' = TRUE
    /\ \E ret \in BackResults :
         /\ dtView' \in IF ret = "True" THEN {"results"} ELSE Views \ {"results"}
         /\ DtReturn("success", dtBack', ret, dtPass = "bi")
    /\ UNCHANGED <<dtPass, dtN, dtIdx, dtName, dtPolls, dtSuccess, dtFailed>>
    /\ DetailFrame

\* PASS 2: if rec: details_success += 1, else: details_failed += 1; then the
\* loop of the pass takes the next entity; PASS 2 follows PASS 1
DtNext ==
    /\ dtPc = "returned"
    /\ dtBack' = FALSE /\ dtName' = "-" /\ dtPolls' = 0
    /\ dtSuccess' = IF dtPass = "bi" /\ dtLog[Len(dtLog)].rec
                    THEN dtSuccess + 1 ELSE dtSuccess
    /\ dtFailed' = IF dtPass = "bi" /\ ~dtLog[Len(dtLog)].rec
                   THEN dtFailed + 1 ELSE dtFailed
    /\ IF dtIdx < dtN
       THEN dtIdx' = dtIdx + 1 /\ dtPc' = "open" /\ UNCHANGED dtPass
       ELSE IF dtPass = "pdf"
            THEN dtIdx' = 1 /\ dtPass' = "bi" /\ dtPc' = "open"
            ELSE dtPc' = "done" /\ UNCHANGED <<dtIdx, dtPass>>
    /\ UNCHANGED <<dtN, dtView, dtLog>>
    /\ DetailFrame

NextDetail ==
    \/ DtOpen
    \/ DtFiling
    \/ DtScript
    \/ DtContainer
    \/ DtName
    \/ DtBack
    \/ DtNext

-----------------------------------------------------------------------------
(***************************************************************************)
(* open_business_info_for_row: the Angular call, the wait for              *)
(* #divBusinessInformation, and the row click as the fallback.  The site   *)
(* decides at each wait whether the container is there, and the page       *)
(* source decides what handle_cloudflare_if_present answers.               *)
(***************************************************************************)

\* the longest results table of the harness
MaxRows == 2

\* timeout = 10 if first_detail_for_keyword else 5
FirstDetailWait == 10

LaterDetailWait == 5

\* the wait after the row click
RowClickWait == 15

\* the wait after handle_cloudflare_if_present answered True
RetryWait == 20

\* what the showBusineInfo script answers; "raised": execute_script raised
ScriptAnswers == {"OK", "NO_TABLE", "NO_SCOPE", "NO_FN", "EX", "raised"}

OpenIdle ==
    /\ opPc = "idle" /\ opPath = "-" /\ first_detail_for_keyword = FALSE
    /\ row_index = 0 /\ opRows = 0 /\ opRet = "-" /\ opLog = <<>>

InitOpen ==
    /\ opPc = "script" /\ opPath = "primary"
    /\ first_detail_for_keyword \in BOOLEAN
    /\ row_index \in 0..MaxRows /\ opRows \in 0..MaxRows
    /\ opRet = "-" /\ opLog = <<>>

OpInputs == <<first_detail_for_keyword, row_index, opRows>>

\* a call is entered in the log
OpLogged(call, path, arg, answer) ==
    opLog' = Append(opLog, [call |-> call, path |-> path, arg |-> arg,
                            answer |-> answer])

OpReturn(r) == opPc' = "done" /\ opRet' = r

\* a path is through without the container: the row click follows the primary
\* path, return False follows the row click
OpPathEnds ==
    IF opPath = "primary"
    THEN opPc' = "row" /\ opRet' = opRet /\ opPath' = opPath
    ELSE OpReturn("False") /\ opPath' = opPath

\* a leftover modal is closed (best effort), then Step 1:
\* raw = sb.execute_script(open_js, biz_id), whatever it answers
OpScript ==
    /\ opPc = "script"
    /\ \E raw \in ScriptAnswers : OpLogged("script", opPath, 0, raw)
    /\ opPc' = "wait"
    /\ UNCHANGED <<opPath, opRet, OpInputs>>
    /\ OpenFrame

\* the time limit of the first wait of a path
WaitTimeout(path, first) ==
    IF path = "primary"
    THEN IF first THEN FirstDetailWait ELSE LaterDetailWait
    ELSE RowClickWait

\* sb.wait_for_element("#divBusinessInformation", timeout=...); return True
OpWait ==
    /\ opPc = "wait"
    /\ \E seen \in BOOLEAN :
         /\ OpLogged("wait", opPath,
                     WaitTimeout(opPath, first_detail_for_keyword), seen)
         /\ IF seen THEN OpReturn("True") ELSE opPc' = "handler" /\ opRet' = opRet
    /\ UNCHANGED <<opPath, OpInputs>>
    /\ OpenFrame

\* a wait that is made again whatever the handler answered, for comparison
RetryAlways(detected) == TRUE

\* if handle_cloudflare_if_present(...): the wait is made again
RetryWanted(detected) == detected

\* except Exception: handle_cloudflare_if_present(sb, ...)
OpHandler ==
    /\ opPc = "handler"
    /\ \E detected \in BOOLEAN :
         /\ OpLogged("handler", opPath, 0, detected)
         /\ IF RetryWanted(detected)
            THEN opPc' = "retry" /\ UNCHANGED <<opRet, opPath>>
            ELSE OpPathEnds
    /\ UNCHANGED OpInputs
    /\ OpenFrame

\* sb.wait_for_element("#divBusinessInformation", timeout=20) after the handler
OpRetry ==
    /\ opPc = "retry"
    /\ \E seen \in BOOLEAN :
         /\ OpLogged("wait", opPath, RetryWait, seen)
         /\ IF seen THEN OpReturn("True") /\ opPath' = opPath ELSE OpPathEnds
    /\ UNCHANGED OpInputs
    /\ OpenFrame

\* Step 2: the row of row_index is looked up and its link clicked; a lookup or
\* click that raises, no rows, an index out of range and a row without a link
\* all return False
OpRowClick ==
    /\ opPc = "row"
    /\ \E table \in BOOLEAN, link \in BOOLEAN, clickOk \in BOOLEAN :
         IF table /\ opRows > 0 /\ row_index < opRows /\ link
         THEN /\ OpLogged("click", "row", row_index, clickOk)
              /\ opPath' = "row"
              /\ IF clickOk THEN opPc' = "wait" /\ opRet' = opRet
                 ELSE OpReturn("False")
         ELSE OpReturn("False") /\ UNCHANGED <<opLog, opPath>>
    /\ UNCHANGED OpInputs
    /\ OpenFrame

NextOpen ==
    \/ OpScript
    \/ OpWait
    \/ OpHandler
    \/ OpRetry
    \/ OpRowClick

\* the largest page number the harness renders
MaxPageNo == 11

\* record counts the harness renders (first record, last record, total)
StartNos == {0, 1, 26}

EndNos == {0, 25}

TotalNos == {0, 105}

WellFormedShapes == {"plain", "upper", "zeros", "embedded", "spaced"}

MalformedShapes == {"nocomma", "nospace", "truncated", "nopager"}

\* the page source for one pager input
PagerHtml(in) ==
    LET t == PagerText(in.x, in.y, in.a, in.b, in.c) IN
    CASE in.shape = "plain" -> t
      [] in.shape = "upper" ->
           <<"PAGE", " ">> \o Dec(in.x) \o <<" ", "OF", " ">> \o Dec(in.y)
             \o <<",", " ", "RECORDS", " ">> \o Dec(in.a) \o <<" ", "TO", " ">>
             \o Dec(in.b) \o <<" ", "OF", " ">> \o Dec(in.c)
      [] in.shape = "zeros" ->
           <<"Page", " ", "0">> \o Dec(in.x) \o <<" ", "of", " ", "0", "0">> \o Dec(in.y)
             \o <<",", " ", "records", " ", "0">> \o Dec(in.a) \o <<" ", "to", " ">>
             \o Dec(in.b) \o <<" ", "of", " ", "0">> \o Dec(in.c)
      [] in.shape = "embedded" ->
           <<"<title>", "Page", " ", "of", " ", "results", "</title>", "\n", "<span>">>
             \o t \o <<"</span>", "7">>
      [] in.shape = "spaced" ->
           <<"Page", "\n", " ">> \o Dec(in.x) \o <<" ", " ", "of", " ">> \o Dec(in.y)
             \o <<",", "records", " ">> \o Dec(in.a) \o <<" ", "to", "\n">> \o Dec(in.b)
             \o <<" ", "of", " ">> \o Dec(in.c)
      [] in.shape = "nocomma" ->
           <<"Page", " ">> \o Dec(in.x) \o <<" ", "of", " ">> \o Dec(in.y)
             \o <<" ", "records", " ">> \o Dec(in.a) \o <<" ", "to", " ">> \o Dec(in.b)
             \o <<" ", "of", " ">> \o Dec(in.c)
      [] in.shape = "nospace" ->
           <<"Page">> \o Dec(in.x) \o <<" ", "of", " ">> \o Dec(in.y)
             \o <<",", " ", "records", " ">> \o Dec(in.a) \o <<" ", "to", " ">> \o Dec(in.b)
             \o <<" ", "of", " ">> \o Dec(in.c)
      [] in.shape = "truncated" ->
           <<"Page", " ">> \o Dec(in.x) \o <<" ", "of", " ">> \o Dec(in.y)
             \o <<",", " ", "records", " ">> \o Dec(in.a) \o <<" ", "to", " ">>
      [] OTHER -> <<"<html>", " ", "</html>">>

\* the order in which the harness goes through the shapes of one pager
ShapeOrder ==
    <<"plain", "upper", "zeros", "embedded", "spaced", "nocomma", "nospace",
      "truncated", "nopager">>

NextShape(sh) ==
    LET i == CHOOSE k \in 1..Len(ShapeOrder) : ShapeOrder[k] = sh
    IN ShapeOrder[(i % Len(ShapeOrder)) + 1]

PagerInputs ==
    [x : 0..MaxPageNo, y : 0..MaxPageNo, a : StartNos, b : EndNos, c : TotalNos,
     shape : {"plain"}]

PagerIdle == pgIn = [x |-> 0, y |-> 0, a |-> 0, b |-> 0, c |-> 0, shape |-> "nopager"]
             /\ pgOut = None /\ pgPc = "idle"

InitPager == pgIn \in PagerInputs /\ pgOut = None /\ pgPc = "call"

\* one call of parse_pager on the page source
PagerCall ==
    /\ pgPc = "call"
    /\ pgOut' = parse_pager(PagerHtml(pgIn))
    /\ pgPc' = "done"
    /\ UNCHANGED pgIn
    /\ PagerFrame

\* the same pager is read again in its next shape
PagerAgain ==
    /\ pgPc = "done"
    /\ pgIn' = [pgIn EXCEPT !.shape = NextShape(pgIn.shape)]
    /\ pgOut' = None
    /\ pgPc' = "call"
    /\ PagerFrame

NextPager == PagerCall \/ PagerAgain

InitSpecPager == InitPager /\ CfIdle /\ BackIdle /\ PdfIdle /\ KeywordIdle
    /\ AssignIdle
    /\ RunIdle
    /\ DetailIdle
    /\ OpenIdle

SpecPager == InitSpecPager /\ [][NextPager]_vars

InitSpecCf == InitCf /\ PagerIdle /\ BackIdle /\ PdfIdle /\ KeywordIdle
    /\ AssignIdle
    /\ RunIdle
    /\ DetailIdle
    /\ OpenIdle

SpecCf == InitSpecCf /\ [][NextCf]_vars

InitSpecBack == InitBack /\ PagerIdle /\ CfIdle /\ PdfIdle /\ KeywordIdle
    /\ AssignIdle
    /\ RunIdle
    /\ DetailIdle
    /\ OpenIdle

SpecBack == InitSpecBack /\ [][NextBack]_vars

\* the one thread of the call keeps taking its steps
FairSpecBack == SpecBack /\ WF_vars(NextBack)

InitSpecPdf == InitPdf /\ PagerIdle /\ CfIdle /\ BackIdle /\ KeywordIdle
    /\ AssignIdle
    /\ RunIdle
    /\ DetailIdle
    /\ OpenIdle

SpecPdf == InitSpecPdf /\ [][NextPdf]_vars

InitSpecKeyword == InitKeyword /\ PagerIdle /\ CfIdle /\ BackIdle /\ PdfIdle
    /\ AssignIdle
    /\ RunIdle
    /\ DetailIdle
    /\ OpenIdle

SpecKeyword == InitSpecKeyword /\ [][NextKeyword]_vars

\* scrape_keyword runs in one thread that is never suspended for good
FairSpecKeyword == SpecKeyword /\ WF_vars(NextKeyword)

InitSpecAssign ==
    InitAssign /\ BackIdle /\ CfIdle /\ KeywordIdle /\ PagerIdle /\ PdfIdle
    /\ RunIdle
    /\ DetailIdle
    /\ OpenIdle

SpecAssign == InitSpecAssign /\ [][NextAssign]_vars

\* a call of assign_proxies_for_batch keeps running until it returns or raises
FairSpecAssign == SpecAssign /\ WF_vars(ApStart) /\ WF_vars(ApProbe)

InitSpecRun ==
    InitRun /\ AssignIdle /\ BackIdle /\ CfIdle /\ KeywordIdle /\ PagerIdle /\ PdfIdle
    /\ DetailIdle
    /\ OpenIdle

SpecRun == InitSpecRun /\ [][NextRun]_vars

InitSpecDetail ==
    InitDetail /\ AssignIdle /\ BackIdle /\ CfIdle /\ KeywordIdle /\ PagerIdle /\ PdfIdle /\ RunIdle
    /\ OpenIdle

SpecDetail == InitSpecDetail /\ [][NextDetail]_vars

InitSpecOpen ==
    InitOpen /\ AssignIdle /\ BackIdle /\ CfIdle /\ DetailIdle /\ KeywordIdle
    /\ PagerIdle /\ PdfIdle /\ RunIdle

SpecOpen == InitSpecOpen /\ [][NextOpen]_vars

-----------------------------------------------------------------------------
(* C5: parse_pager returns None for the placeholder 'Page 0 of 0, records  *)
(* 0 to 0 of 0' and for text that does not match the pattern, and for      *)
(* every well-formed 'Page X of Y, records A to B of C' with Y > 0 and     *)
(* C > 0 it returns exactly X, Y, A, B, C as page, total_pages, start,     *)
(* end, total.                                                             *)
C5_ParsePagerExact ==
    pgPc = "done" =>
      /\ pgIn.shape \in MalformedShapes => pgOut = None
      /\ (pgIn.shape \in WellFormedShapes /\ pgIn.x = 0 /\ pgIn.y = 0 /\ pgIn.a = 0
            /\ pgIn.b = 0 /\ pgIn.c = 0) => pgOut = None
      /\ (pgIn.shape \in WellFormedShapes /\ pgIn.y > 0 /\ pgIn.c > 0) =>
           pgOut = [tag |-> "pager", page |-> pgIn.x, total_pages |-> pgIn.y,
                    start |-> pgIn.a, end |-> pgIn.b, total |-> pgIn.c]

\* a multi-digit pager with leading zeros has been parsed to its integers
C5_Witness ==
    /\ pgPc = "done"
    /\ pgIn.shape = "zeros" /\ pgIn.x = 10 /\ pgIn.y = 11 /\ pgIn.c = 105
    /\ pgOut # None /\ pgOut.total = 105

-----------------------------------------------------------------------------
-----------------------------------------------------------------------------
(* C2: click_back_with_cf makes no backward navigation (no click on the    *)
(* back control, no history.back) once it has observed the search form:    *)
(* on that observation it stops and returns False.                         *)
C2_NoNavigationPastSearchForm ==
    /\ ~bkNavAfterAdv
    /\ bkAdvSeen => (bkPc = "done" /\ bkRet = "False")

\* two history.back steps were made, the second landed on the search form,
\* and the function stopped there
C2_Witness ==
    /\ bkPc = "done" /\ bkRet = "False" /\ bkAdvSeen
    /\ bkHistBacks = 2 /\ "AdvancedSearch" \in bkPage.url

-----------------------------------------------------------------------------
(* C4: a PDF summary is appended for a filing only if the file downloaded  *)
(* for it passed is_valid_pdf (it exists, has at least 2048 bytes and      *)
(* starts with %PDF); a filing whose download is missing or was rejected   *)
(* gets no summary.                                                        *)
C4_SummaryOnlyFromValidPdf ==
    /\ \A k \in 1..Len(pdf_summaries) :
         LET s == pdf_summaries[k] IN
         /\ s.file.exists
         /\ s.file.size >= 2048
         /\ Len(s.file.header) >= 4
         /\ SubSeq(s.file.header, 1, 4) = <<"%", "P", "D", "F">>
         /\ s.from # 0
    /\ \A i \in 1..Len(pfFilings) :
         /\ pfOutcome[i] \in {"no_file", "invalid"} =>
              ~\E k \in 1..Len(pdf_summaries) : pdf_summaries[k].filing = i
         /\ Cardinality({k \in 1..Len(pdf_summaries) : pdf_summaries[k].filing = i}) <= 1

\* one filing's download was rejected and another's was validated and summarised
C4_Witness ==
    /\ pfPc = "done" /\ pfRet = "returned"
    /\ \E i, j \in 1..Len(pfFilings) :
         /\ pfOutcome[i] = "invalid" /\ pfOutcome[j] = "summarised"
         /\ \E k \in 1..Len(pdf_summaries) : pdf_summaries[k].filing = j

-----------------------------------------------------------------------------
(* C1: within one run of scrape_keyword, whatever pages and lists the site *)
(* serves, the detail records hold at most one record per BusinessID.      *)
C1_OneRecordPerBusinessID ==
    \A i, j \in 1..Len(html_details_records) :
        i # j => html_details_records[i].BusinessID # html_details_records[j].BusinessID

\* a business listed on page 1 is listed twice on page 2; the run is over and
\* holds its record
C1_Witness ==
    /\ kwPc = "done" /\ kwRet = "summary" /\ sitePage = 2
    /\ \E id \in Ids :
         /\ business_list = <<id, id>> /\ kwFirstSeen[id] = 1
         /\ \E k \in 1..Len(html_details_records) :
              html_details_records[k].BusinessID = id

-----------------------------------------------------------------------------
(* C3: when every fill/submit attempt raises, exactly 3 attempts are made, *)
(* there is no 4th, and scrape_keyword returns the failure result.         *)
C3_ThreeFormAttempts ==
    /\ attempt <= 3 /\ kwFormRaises <= 3
    /\ kwFormRaises = 3 => kwPc = "done" /\ kwRet = "failure"
    /\ kwRet = "failure" /\ attempt # 0 => kwFormRaises = 3 /\ attempt = 3
    /\ kwRet = "failure" => pages_info = <<>> /\ html_details_records = <<>>

\* the form was submitted three times, each attempt raised, the run failed
C3_Witness ==
    kwPc = "done" /\ kwRet = "failure" /\ attempt = 3 /\ kwFormRaises = 3

-----------------------------------------------------------------------------
\* the run read one page, of a keyword of one page, whose list is one business
OneEntityOnePage ==
    /\ kwPc = "done" /\ kwRet = "summary"
    /\ pages_info = <<1>> /\ siteTotal = 1
    /\ Len(business_list) = 1 /\ business_list[1] # 0
    /\ pager # None /\ pager.page = 1 /\ pager.total_pages = 1

-----------------------------------------------------------------------------
-----------------------------------------------------------------------------
(* C9: whatever the site does, a next-page click that runs but never       *)
(* changes the page included, the pagination loop ends and scrape_keyword  *)
(* returns a result.                                                       *)
C9_KeywordReturns == <>(kwPc = "done")

-----------------------------------------------------------------------------
(* C10: the pagination loop stops exactly when the pager's current page is *)
(* the last one, or neither advance control could be invoked, or the pager *)
(* is still unreadable after the first read and 5 retries; in that last    *)
(* case scrape_keyword still returns its summary.                          *)
C10_LoopStopsExactlyWhen ==
    /\ kwPc = "done" /\ kwRet = "summary" =>
         \/ pager = None /\ retry_count = 5
         \/ pager # None /\ pager.page >= pager.total_pages
         \/ /\ pager # None /\ pager.page < pager.total_pages
            /\ ~moved /\ kwNextCalled /\ kwPageNoCalled
    /\ kwPc = "pager_retry" => retry_count <= 5
    /\ kwPc = "advance" => pager # None /\ pager.page < pager.total_pages
    /\ kwPc \in {"page", "pass1", "pass2", "pager"} /\ Len(pages_info) > 1 =>
         moved /\ pager # None /\ pager.page < pager.total_pages
    /\ kwPc = "done" /\ pages_info # <<>> => kwRet = "summary"

\* the pager stayed unreadable through the first read and 5 retries; the run
\* returned its summary with the record it had captured
C10_Witness ==
    /\ kwPc = "done" /\ kwRet = "summary"
    /\ pager = None /\ retry_count = 5
    /\ html_details_records # <<>>

-----------------------------------------------------------------------------
(* C12: a proxy that fails the liveness probe is added to the excluded set *)
(* and appended to the deny-list file, and from then on it is never probed *)
(* again nor assigned to a keyword for the rest of the run.                *)
C12_FailedProxyExcluded ==
    /\ \A p \in apFailed :
         /\ p \in excluded
         /\ \E i \in 1..Len(exc_file) : exc_file[i] = p
         /\ \A k \in Keywords : apPc # "done" \/ apRet # "returned" \/ assignments[k] # p
    /\ ~apProbedAgain

\* a later call, made after a proxy had failed, started without that proxy
\* among its candidates and assigned another one
C12_Witness ==
    /\ apPc = "done" /\ apRet = "returned"
    /\ apFailed # {} /\ candidate_proxies \cap apFailed = {}
    /\ \E k \in Keywords : assignments[k] # 0

-----------------------------------------------------------------------------
\* what a finished call of assign_proxies_for_batch leaves
AssignOutcome ==
    LET batch == {apKeywords[i] : i \in {j \in 1..Len(apKeywords) : j <= batch_size}}
    IN /\ apPc = "done" => apRet \in {"returned", "RuntimeError"}
       /\ apPc = "done" /\ apRet = "returned" =>
            /\ \A k \in batch :
                 /\ assignments[k] \in 1..MaxProxies
                 /\ assignments[k] \in apPassed
                 /\ assignments[k] \notin excluded
            /\ \A k1, k2 \in batch : k1 # k2 => assignments[k1] # assignments[k2]
            /\ \A k \in Keywords \ batch : assignments[k] = 0
       /\ apPc = "done" /\ apRet = "RuntimeError" =>
            ~\E p \in 1..MaxProxies : p \notin excluded /\ p \notin used_in_batch

(* C18: assign_proxies_for_batch always terminates, and either returns an  *)
(* assignment that gives each of the first batch_size keywords a proxy of  *)
(* its own that passed the liveness probe and is not excluded, or raises   *)
(* RuntimeError when no candidate is left that is neither excluded nor     *)
(* used.                                                                   *)
C18_AssignTerminates ==
    /\ []AssignOutcome
    /\ [](apPc \in {"start", "loop"} => <>(apPc = "done"))

\* a call returned an assignment for a batch of two keywords after excluding
\* a proxy on the way
C18_Witness ==
    /\ apPc = "done" /\ apRet = "returned"
    /\ Len(batch_keywords) = 2
    /\ apFailed \cap candidate_proxies # {}

\* the entries this run appended to tracking_combined
NewEntries ==
    SubSeq(tracking_combined, Len(ExistingTracking(rlPriorFile)) + 1,
           Len(tracking_combined))

\* the keywords named by the entries of the earlier run
PriorKeywords ==
    {rlPriorFile.entries[i].keyword : i \in 1..Len(rlPriorFile.entries)} \ {0}

(* C11: in proxy-list mode no two keyword workers in flight hold the same  *)
(* proxy: a proxy given to a running worker is not given to another worker *)
(* until the first has finished.                                           *)
C11_ExclusiveProxy ==
    \A f, g \in future_to_kw : f # g => f.px # g.px

(* C13: on restart every keyword that appears in the existing tracking     *)
(* file is skipped, never handed to a scrape in the new run, and the       *)
(* entries of the earlier run are preserved in the tracking file the new   *)
(* run writes.                                                             *)
C13_DoneSkippedPriorKept ==
    rlPriorFile.readable =>
      /\ \A f \in future_to_kw : f.kw \notin PriorKeywords
      /\ rlPc # "load" /\ rlKeywordFile # <<>> =>
           /\ \A i \in 1..Len(NewEntries) : NewEntries[i].keyword \notin PriorKeywords
           /\ \A i \in 1..Len(pending_keywords) :
                rlScrapes[i] > 0 => pending_keywords[i] \notin PriorKeywords
           /\ Len(tracking_combined) >= Len(rlPriorFile.entries)
           /\ SubSeq(tracking_combined, 1, Len(rlPriorFile.entries)) = rlPriorFile.entries
      /\ tracking_file.readable
      /\ Len(tracking_file.entries) >= Len(rlPriorFile.entries)
      /\ SubSeq(tracking_file.entries, 1, Len(rlPriorFile.entries)) = rlPriorFile.entries

\* a finished run that skipped a keyword of the earlier run and scraped another
C13_Witness ==
    /\ rlPc = "done" /\ rlPriorFile.readable
    /\ \E i \in 1..Len(rlKeywordFile) : rlKeywordFile[i] \in PriorKeywords
    /\ Len(NewEntries) > 0
    /\ tracking_file = ListFile(tracking_combined)

(* C14: by the end of run_letter every pending keyword has exactly one     *)
(* tracking entry, whether its scrape succeeded, failed or raised, in all  *)
(* three modes, also when the working proxies run out.                     *)
C14_OneEntryPerPending ==
    rlPc = "done" /\ rlKeywordFile # <<>> =>
      \A i \in 1..Len(pending_keywords) :
        Cardinality({j \in 1..Len(NewEntries) :
                       NewEntries[j].keyword = pending_keywords[i]}) = 1

(* C17: a keyword whose form submission exhausted its attempts is recorded *)
(* with zero pages, rows, detail successes and model records, and is not   *)
(* submitted again within the same run.                                    *)
C17_FormFailureRecordedOnce ==
    \A pos \in rlFormFailed :
      LET kw == pending_keywords[pos]
      IN /\ Len(result_map[kw]) = 1
         /\ result_map[kw][1].pages_visited = 0
         /\ result_map[kw][1].records_scraped = 0
         /\ result_map[kw][1].details_success = 0
         /\ result_map[kw][1].api_records = 0
         /\ \E j \in 1..Len(NewEntries) :
              /\ NewEntries[j].keyword = kw
              /\ NewEntries[j].records_scraped = 0
              /\ NewEntries[j].details_success = 0
              /\ NewEntries[j].api_records = 0
         /\ Cardinality({j \in 1..Len(NewEntries) : NewEntries[j].keyword = kw}) = 1
         /\ rlScrapes[pos] = 1
         /\ \A f \in future_to_kw : f.kw # kw

\* a finished run of two keywords, the first of which gave up on the form
C17_Witness ==
    /\ rlPc = "done" /\ 1 \in rlFormFailed /\ Len(pending_keywords) = 2
    /\ Len(NewEntries) = 2

(* C19: if the scrape of one keyword raises, the run records a tracking    *)
(* entry for that keyword with an error field and zero counts and goes on  *)
(* with the remaining keywords; the failure does not end the run. (The     *)
(* keywords left without a worker when no proxy can be assigned are the    *)
(* only ones a finished run has not processed.)                            *)
C19_RaiseRecordedRunGoesOn ==
    /\ \A pos \in rlRaised :
         \E j \in 1..Len(NewEntries) :
           /\ NewEntries[j].keyword = pending_keywords[pos]
           /\ NewEntries[j].error
           /\ NewEntries[j].records_scraped = 0
           /\ NewEntries[j].details_success = 0
           /\ NewEntries[j].api_records = 0
    /\ rlPc = "done" /\ rlKeywordFile # <<>> =>
         \A i \in 1..Len(pending_keywords) :
           \/ \E j \in 1..Len(NewEntries) : NewEntries[j].keyword = pending_keywords[i]
           \/ rlMode = "proxy_list" /\ i \in rlDropped
           \/ rlMode = "proxy_list" /\ rlDropped # {} /\ i >= kw_iter
    /\ rlPc \in {"pull", "assign", "wait", "handle", "seq", "end", "done"}
         \/ rlRaised = {}

\* a finished parallel run whose first keyword raised and whose second
\* keyword was scraped after it
C19_Witness ==
    /\ rlPc = "done" /\ rlMode = "proxy_list" /\ 1 \in rlRaised
    /\ Len(NewEntries) = 2 /\ NewEntries[1].error /\ ~NewEntries[2].error
    /\ NewEntries[2].keyword = pending_keywords[2]

(* C15: every exit path of a detail capture (success, open failure,        *)
(* container timeout, script error, exception raised inside the            *)
(* filing-history sub-flow) invokes the return navigator                   *)
(* click_back_with_cf before the next entity or the next page is processed.*)
C15_EveryExitCallsBack ==
    \A i \in 1..Len(dtLog) : dtLog[i].back

\* this step is a Business Information capture of id
AttemptBI(id) == kwPc = "pass2" /\ kwOpens'[id] = kwOpens[id] + 1

\* a failed capture yields no record, counts as failed and leaves the id
\* unvisited; a successful one leaves the failure counter alone
FailedCaptureEffects(id) ==
    /\ AttemptBI(id) /\ html_details_records' = html_details_records =>
         /\ details_failed' = IF details_failed < MaxCount THEN details_failed + 1
                              ELSE details_failed
         /\ visited_detail_ids' = visited_detail_ids
         /\ id \notin visited_detail_ids'
    /\ AttemptBI(id) /\ html_details_records' # html_details_records =>
         details_failed' = details_failed

OnResultsGrid(page) == "BusinessSearch" \in page.url /\ "results" \in page.html

\* this step is the results check of Step 1, made once Step 0 has dealt with
\* the modal
EndOfStep1 == bkPc = "check1" /\ bkPc' # "check1"

(* C20: if the session is already on the results grid when                 *)
(* click_back_with_cf is called (after closing any open modal), it returns *)
(* True immediately and performs no back-control click and no              *)
(* history.back, leaving the page state unchanged; it returns at that      *)
(* point only on the results grid. (On the results grid: the probe's       *)
(* driver reads succeed and show the results URL and a results marker.)    *)
C20_OnResultsReturnsAtOnce ==
    [][/\ (EndOfStep1 /\ OnResultsGrid(bkPage) /\ ~bkRaised1') =>
             /\ bkPc' = "done" /\ bkRet' = "True"
             /\ bkClicks' = 0 /\ bkHistBacks' = 0 /\ bkCfChecks' = 0
             /\ bkPage' = bkPage /\ bkPending' = bkPending
       /\ (EndOfStep1 /\ bkPc' = "done") => OnResultsGrid(bkPage) /\ ~bkRaised1'
      ]_vars

\* the call returned True at Step 1, on the results grid, without navigating
C20_Witness ==
    /\ bkPc = "done" /\ bkRet = "True" /\ OnResultsGrid(bkPage)
    /\ bkClicks = 0 /\ bkHistBacks = 0 /\ bkCfChecks = 0 /\ ~bkRaised1

-----------------------------------------------------------------------------
(* C21: for each entity at most 3 filings are processed for document       *)
(* download, so at most 3 PDF summaries are produced per entity whatever   *)
(* the length of the filing-history table.                                 *)
C21_AtMostThreeFilings ==
    /\ Len(pdf_summaries) <= 3
    /\ \A k \in 1..Len(pdf_summaries) : pdf_summaries[k].filing <= 3
    /\ \A i \in 1..Len(pfFilings) : i > 3 => pfOutcome[i] = "-"
    /\ pfPc \in {"modal_wait", "click_doc", "wait_pdf", "validate"} => pfIdx <= 3
    /\ pfInFlight \subseteq 1..3

\* a table of more than three filings: three summaries, the fourth row untouched
C21_Witness ==
    /\ pfPc = "done" /\ pfRet = "returned" /\ Len(pfFilings) > 3
    /\ Len(pdf_summaries) = 3 /\ pfOutcome[4] = "-"

\* the outcomes of a filing whose download or validation went wrong
FilingFaults == {"not_clicked", "modal_hidden", "no_document", "no_file", "invalid"}

\* a filing with a fault has no summary and the loop has moved past it
FaultDiscarded ==
    \A i \in 1..Len(pfFilings) :
      pfOutcome[i] \in FilingFaults =>
        /\ ~\E k \in 1..Len(pdf_summaries) : pdf_summaries[k].filing = i
        /\ pfIdx > i

\* the loop over the filings is at one of its steps
InFilingLoop == pfPc \in {"row", "modal_wait", "click_doc", "wait_pdf", "validate"}

(* C30: a download or validation fault for one filing (modal not opened,   *)
(* no matching document, no new file within the timeout, invalid PDF)      *)
(* discards that filing's artifact and the loop proceeds to the next       *)
(* filing; it never aborts the enclosing entity capture and the            *)
(* filing-table rows are still returned.                                   *)
C30_FaultNeverAborts ==
    /\ []FaultDiscarded
    /\ [][InFilingLoop => pfRet' # "raised"]_vars

\* the pending keywords whose outcome run_letter has recorded so far
Completed ==
    {i \in 1..Len(pending_keywords) :
       rlScrapes[i] > 0 /\ ~\E f \in future_to_kw : f.pos = i}

\* the entries of the earlier run that the tracking file held at the start
PriorOnDisk == IF rlPriorFile.readable THEN rlPriorFile.entries ELSE <<>>

Counted == {i \in 1..Len(dtLog) : i < Len(dtLog) \/ dtPc # "returned"}

(* C23: if the detail container renders but the name field is still empty  *)
(* after the bounded name polling, the capture is routed to failure: no    *)
(* detail record is produced for that entity and it is counted as failed.  *)
C23_EmptyNameIsFailure ==
    /\ \A i \in 1..Len(dtLog) : dtLog[i].name = "empty" => ~dtLog[i].rec
    /\ dtFailed >= Cardinality({i \in Counted : dtLog[i].name = "empty"})

(* C24: when click_back_with_cf returns false after a detail capture, the  *)
(* failure is surfaced as a failed return for that entity in the recorded  *)
(* outcome rather than being silently ignored.                             *)
C24_BackFailureSurfaced ==
    \A i \in 1..Len(dtLog) :
      dtLog[i].ret = "False" => dtLog[i].exit # "success" /\ ~dtLog[i].rec

\* the call answers True only on the results grid, and otherwise False or an
\* exception of the driver
BackAnswer ==
    /\ bkPc = "done" => bkRet \in {"True", "False", "raised"}
    /\ bkRet = "True" => OnResultsGrid(bkPage)

C26_CheckAfterEveryStep ==
    ~bkBlind

(* C27: whenever the page state is classified, the challenge check is made *)
(* before any check for results grid, detail view or search form, so a     *)
(* page showing a challenge over stale results markup is never classified  *)
(* as the results grid.                                                    *)
C27_ChallengeCheckedFirst ==
    /\ bkPc \notin {"modal", "check1"} => bkCfChecks > 0
    /\ bkRet = "True" => ~bkChallenge

\* this step is the advance of the pagination loop
AdvanceStep == kwPc = "advance" /\ kwPc' # "advance"

\* this step leaves the pager read with a pager in hand
PagerReadStep == kwPc = "pager_retry" /\ kwPc' # "pager_retry" /\ pager # None

TimedOut(i) == opLog[i].call = "wait" /\ ~opLog[i].answer

\* entry i of the log is a wait that observed the container
Observed(i) == opLog[i].call = "wait" /\ opLog[i].answer

\* entry i of the log is the handler, and answered b
Handled(i, b) == opLog[i].call = "handler" /\ opLog[i].answer = b

(* C29: in open_business_info_for_row, when the wait for the detail        *)
(* container times out the challenge handler is invoked once, and the wait *)
(* is made again, once, only if the handler answered True; the row click   *)
(* (by row index) is attempted only after the primary path failed; both    *)
(* paths end in the same container wait; the function returns True only    *)
(* if the container was observed.                                          *)
C29_OpenByScriptThenRowClick ==
    LET n == Len(opLog) IN
    \* the handler follows a timed-out first wait, once per path
    /\ \A i \in 1..n : opLog[i].call = "handler" =>
         /\ i > 2 /\ TimedOut(i - 1) /\ opLog[i - 2].call \in {"script", "click"}
         /\ \A j \in 1..n : opLog[j].call = "handler" /\ opLog[j].path = opLog[i].path
                              => j = i
    /\ \A i \in 1..n : TimedOut(i) /\ i > 1 /\ opLog[i - 1].call \in {"script", "click"} =>
         IF i < n THEN opLog[i + 1].call = "handler" ELSE opPc = "handler"
    \* the wait is made again only after the handler answered True, and then once
    /\ \A i \in 2..n : opLog[i].call = "wait" =>
         \/ opLog[i - 1].call = "script"
         \/ opLog[i - 1].call = "click" /\ opLog[i - 1].answer
         \/ Handled(i - 1, TRUE)
    /\ \A i \in 1..n : Handled(i, TRUE) /\ i = n => opPc = "retry"
    /\ \A i \in 1..n : Handled(i, FALSE) /\ i = n => opPc \in {"row", "done"}
    /\ \A i \in 1..n : TimedOut(i) /\ i > 1 /\ opLog[i - 1].call = "handler" /\ i = n
                         => opPc \in {"row", "done"}
    \* the row click comes after the primary path failed, at row_index
    /\ \A i \in 1..n : opLog[i].call = "click" =>
         /\ opLog[i].arg = row_index /\ row_index < opRows
         /\ i > 2 /\ opLog[1].call = "script"
         /\ opLog[i].path = "row"
         /\ \A j \in 1..(i - 1) : opLog[j].path = "primary" /\ ~Observed(j)
         /\ Handled(i - 1, FALSE) \/ (TimedOut(i - 1) /\ Handled(i - 2, TRUE))
         /\ \A j \in 1..n : opLog[j].call = "click" => j = i
    \* both paths go through the same wait: first wait, handler, second wait
    /\ \A i \in 1..n : opLog[i].call \in {"script", "click"} /\ i < n
                         => opLog[i + 1].call = "wait" /\ opLog[i + 1].path = opLog[i].path
    /\ \A i \in 1..n : opLog[i].call \in {"script", "click"} /\ i = n =>
         opPc = "wait" \/ (opLog[i].call = "click" /\ ~opLog[i].answer /\ opPc = "done")
    \* True only with the container observed, and then at once
    /\ opRet = "True" <=> (n > 0 /\ Observed(n))
    /\ \A i \in 1..n : Observed(i) => i = n /\ opPc = "done"
    /\ opPc = "done" <=> opRet \in {"True", "False"}

\* the container was observed at the last wait of all: after the handler, on
\* the row-click path, the primary path having failed with the handler too
C29_Witness ==
    /\ opPc = "done" /\ opRet = "True" /\ Len(opLog) = 8
    /\ Handled(3, TRUE) /\ opLog[5].call = "click" /\ Handled(7, TRUE)

\* the function is through with row i: a later row is at its turn, or it has ended
LeftRow(i) == pfIdx > i \/ pfPc = "done"

(* C31: for every filing whose document overlay was opened,                *)
(* close_view_documents_modal (close, then forced removal of leftover      *)
(* backdrops) is run before the document's fields are extracted and before *)
(* the next filing or the return navigation begins, on success and on      *)
(* every failure path.                                                     *)
C31_OverlayClosedOnEveryPath ==
    \A i \in pfShown :
      /\ LeftRow(i) => i \in pfClosed
      /\ (\E k \in 1..Len(pdf_summaries) : pdf_summaries[k].filing = i) => i \in pfClosed

(* C37: the file recorded in a filing's PDF summary is the file whose      *)
(* download was triggered for that same filing; a download triggered for   *)
(* an earlier filing that lands late, after that filing's wait timed out,  *)
(* is never attributed to a later filing.                                  *)
C37_SummaryFromOwnDownload ==
    \A k \in 1..Len(pdf_summaries) : pdf_summaries[k].from = pdf_summaries[k].filing

\* the detail record of BusinessID id has been written
HasRecord(id) ==
    \E k \in 1..Len(html_details_records) : html_details_records[k].BusinessID = id

\* a step of PASS 1 that opens id for its filing-history sub-flow
PdfSubflowStep(id) == kwPc = "pass1" /\ kwOpens'[id] > kwOpens[id]

\* a step of PASS 2 that writes the record of id
PayloadStep(id) == ~HasRecord(id) /\ HasRecord(id)'

\* C32: for each entity the filing-history/document sub-flow comes before the
\* name polling and the payload capture: the step that writes the record of an
\* entity finds the sub-flow of that entity already made, and no sub-flow is
\* made for an entity whose record has been written
C32_SubflowBeforePayload ==
    [][\A id \in Ids :
         /\ PayloadStep(id) => kwPc = "pass2" /\ pdf_data_by_id[id] # -1
         /\ PdfSubflowStep(id) => ~HasRecord(id)]_vars

\* C32 witness: a record was written for an entity whose sub-flow had
\* downloaded documents, on a later page than the one the entity was first on
C32_Witness ==
    \E k \in 1..Len(html_details_records) :
      /\ html_details_records[k].PDFDownloadedCount > 0
      /\ pdf_data_by_id[html_details_records[k].BusinessID] > 0
      /\ html_details_records[k].BusinessID \in kwLateOpen

\* a turn of the pagination loop whose model channel gave no list
EmptyChannelStep == kwPc = "page" /\ ~(kwPc' = "pass1" /\ business_list' # <<>>)

\* C33: when the model channel returns an empty list for a page, or its
\* extraction fails, no detail capture is attempted for that page, no error is
\* raised or counted, the page's grid rows are recorded and the loop goes on to
\* the pager
C33_EmptyChannelIsNoError ==
    /\ [](business_list = <<>> => \A i \in Ids : kwOpens[i] = 0)
    /\ [][EmptyChannelStep =>
            /\ business_list' = <<>> /\ kwPc' = "pager" /\ kwRet' = kwRet
            /\ details_failed' = details_failed /\ kwFailedIds' = kwFailedIds
            /\ html_details_records' = html_details_records
            /\ pdf_data_by_id' = pdf_data_by_id
            /\ (Len(pages_info) < MaxLog => pages_info' = Append(pages_info, page_index))]_vars

\* C33 witness: the first page gave no list, nothing was opened or counted, and
\* the loop moved on to read the second page
C33_Witness ==
    /\ business_list = <<>> /\ pages_info = <<1>> /\ kwPc = "page"
    /\ sitePage = 2 /\ page_index = 2 /\ details_failed = 0 /\ kwRet = "-"
    /\ html_details_records = <<>>

\* this step is a return of True
ReturnsTrueStep == bkRet # "True" /\ bkRet' = "True"

\* the places of click_back_with_cf where is_on_search_results() is asked
ResultsProbes == {"check1", "biwait_res", "hist_res", "histwait_res", "final"}

\* a page only the detail probe accepts, and one only the search-form probe accepts
DetailOnly(page) == is_on_business_info(page, TRUE) /\ ~is_on_search_results(page, TRUE)

FormOnly(page) == reached_advanced_search(page, TRUE) /\ ~is_on_search_results(page, TRUE)

Submitted == {i \in Positions : rlScrapes[i] > 0}

\* the outcomes this run has recorded in tracking_combined
Recorded == Len(tracking_combined) - Len(ExistingTracking(rlPriorFile))

\* C35: in proxy-list mode at most batch_size keyword workers are in flight,
\* each pending keyword is submitted at most once, and a slot is refilled only
\* after the outcome of the worker that freed it was recorded and flushed
C35_SlidingWindow ==
    (rlMode = "proxy_list" /\ rlPc # "load" /\ rlKeywordFile # <<>>) =>
      /\ Cardinality(future_to_kw) <= max_workers
      /\ \A i \in Positions : rlScrapes[i] <= 1
      /\ \A f, g \in future_to_kw : f.kw = g.kw => f = g
      /\ Cardinality(Submitted) = Recorded + Cardinality(future_to_kw)
      /\ Cardinality(Submitted) <= max_workers + Recorded
      /\ (rlCaller = "refill" /\ rlPc \in {"pull", "assign"}) =>
            /\ Recorded > 0
            /\ tracking_file = ListFile(tracking_combined)

\* C35 witness: with batch_size 1 and two pending keywords, the second was
\* submitted into the slot the first had freed, after its outcome was recorded
C35_Witness ==
    /\ rlMode = "proxy_list" /\ max_workers = 1 /\ Len(pending_keywords) = 2
    /\ Cardinality(Submitted) = 2 /\ Recorded = 1 /\ Cardinality(future_to_kw) = 1
    /\ rlCaller = "refill"

\* the final results file holds a result entry for keyword kw
InResultsFile(kw) ==
    results_file.readable /\ \E item \in results_file.keywords : item.keyword = kw

(* C36: after a run that resumes from an interrupted earlier run, the      *)
(* final results file holds a result entry for every keyword listed in     *)
(* the tracking file, the keywords completed and flushed by the            *)
(* interrupted run included (entries of the except branches, and entries   *)
(* without a keyword, are left aside).                                     *)
C36_ResultsCoverTracking ==
    (rlPc = "done" /\ rlKeywordFile # <<>>) =>
      \A i \in 1..Len(tracking_file.entries) :
        LET e == tracking_file.entries[i] IN
        (e.keyword # 0 /\ ~e.error) => InResultsFile(e.keyword)

\* this step is the head of a turn of the pagination loop: the page is
\* extracted and recorded under page_index
ExtractStep == kwPc = "page" /\ kwPc' # "page"

(* C38: the pagination loop never extracts the same results page twice     *)
(* for one keyword: the page number under which the grid rows of a turn    *)
(* are recorded is greater than every page number recorded before it.      *)
C38_PagesStrictlyIncreasing ==
    [][(ExtractStep /\ pages_info # <<>>) =>
          page_index > pages_info[Len(pages_info)]]_vars

\* this step is a detail capture attempted by PASS 2
CaptureStep == kwPc = "pass2" /\ kwOpens' # kwOpens

\* the capture of this step was counted as a success, with its record written
CountedSuccess ==
    /\ details_success' = details_success + 1
    /\ Len(html_details_records') = Len(html_details_records) + 1
    /\ details_failed' = details_failed

\* the capture of this step was counted as a failure (the counter of the
\* model stops at MaxCount), with no record written
CountedFailure ==
    /\ details_failed' = IF details_failed < MaxCount THEN details_failed + 1
                         ELSE details_failed
    /\ details_success' = details_success
    /\ html_details_records' = html_details_records

(* C39: in every keyword summary details_success is the number of detail   *)
(* records written for the keyword, every attempted capture is counted     *)
(* once, as a success or as a failure, and nothing else is counted;        *)
(* pdf_success <= details_success and                                      *)
(* pdf_fail = details_success - pdf_success >= 0.                          *)
C39_SummaryCountsAgree ==
    /\ [](details_success = Len(html_details_records))
    /\ [](kwRet = "summary" =>
            /\ pdf_success =
                 Cardinality({k \in 1..Len(html_details_records) :
                                html_details_records[k].PDFDownloadedCount > 0})
            /\ pdf_success <= details_success
            /\ pdf_fail = details_success - pdf_success
            /\ pdf_fail >= 0)
    /\ [][IF CaptureStep THEN CountedSuccess \/ CountedFailure
          ELSE UNCHANGED <<details_success, details_failed, html_details_records>>]_vars

\* C39 witness: a summary of two records, one of them with a PDF, and one
\* capture that failed
C39_Witness ==
    /\ kwRet = "summary" /\ details_success = 2 /\ details_failed = 1
    /\ pdf_success = 1 /\ pdf_fail = 1 /\ Len(html_details_records) = 2

=============================================================================
